---- MODULE Spec2Model ----
(***************************************************************************)
(* amqp-worker (h-worker): a requester (HWorkerClient) publishes Work      *)
(* Envelopes to a work queue, a worker (HWorkerServer) consumes them, runs *)
(* the work function and publishes Update Envelopes to the reply queue     *)
(* named in the delivery.  The model follows src/client/index.js,          *)
(* src/server/index.js, src/server/messaging.js (lines 1-174) and the      *)
(* error classes of src/unnamed/part_008.                                  *)
(***************************************************************************)
EXTENDS Integers, Sequences, FiniteSets, TLC

(***************************************************************************)
(* JavaScript values.  Every value is a record tagged by t; numbers and    *)
(* booleans carry their textual representation, objects a sequence of      *)
(* <<key, value>> members, arrays a sequence of items, a Buffer its text.  *)
(***************************************************************************)
Undefined == [t |-> "undefined"]
Null == [t |-> "null"]
Str(s) == [t |-> "string", v |-> s]
Num(s) == [t |-> "number", v |-> s]
Bool(s) == [t |-> "boolean", v |-> s]
Obj(members) == [t |-> "object", v |-> members]
Arr(items) == [t |-> "array", v |-> items]
Buf(text) == [t |-> "buffer", v |-> text]
Function == [t |-> "function"]

\* JavaScript truthiness (the tests !x and x || y)
Truthy(x) ==
  CASE x.t \in {"undefined", "null"} -> FALSE
    [] x.t = "string" -> x.v # ""
    [] x.t = "number" -> x.v # "0"
    [] x.t = "boolean" -> x.v = "true"
    [] OTHER -> TRUE

\* x instanceof Object
InstanceOfObject(x) == x.t \in {"object", "array", "buffer", "error"}

(***************************************************************************)
(* Error objects: src/unnamed/part_008 (the shared errors module) and the  *)
(* built-in Error / TypeError / SyntaxError.  toJSON says which toJSON     *)
(* method the prototype carries.                                           *)
(***************************************************************************)
ErrorObject(name, message, toJSON, option, kind) ==
  [t |-> "error", name |-> name, message |-> message, toJSON |-> toJSON,
   option |-> option, kind |-> kind]

Error(message) == ErrorObject("Error", message, "none", Undefined, Undefined)
TypeError(message) == ErrorObject("TypeError", message, "none", Undefined, Undefined)
SyntaxError(message) == ErrorObject("SyntaxError", message, "none", Undefined, Undefined)

InvalidOption(option, kind, message) ==
  ErrorObject("InvalidOption", message, "invalidOption", option, kind)
MalformedMessage(message) ==
  ErrorObject("MalformedMessage", message, "nameMessage", Undefined, Undefined)
UnsupportedContentType(message) ==
  ErrorObject("UnsupportedContentType", message, "nameMessage", Undefined, Undefined)
NotConnected(message) ==
  ErrorObject("NotConnected", message, "none", Undefined, Undefined)

\* err.name / err.message of an arbitrary thrown value (undefined on a primitive)
NameOf(err) == IF err.t = "error" THEN Str(err.name) ELSE Undefined
MessageOf(err) == IF err.t = "error" THEN err.message ELSE Undefined

\* the toJSON methods of part_008
ToJSON(err) ==
  IF err.toJSON = "invalidOption"
  THEN Obj(<< <<"name", Str(err.name)>>, <<"option", err.option>>,
              <<"kind", err.kind>>, <<"message", err.message>> >>)
  ELSE Obj(<< <<"name", Str(err.name)>>, <<"message", err.message>> >>)

\* _defaultErrorToJSON
DefaultErrorToJSON(err) ==
  Obj(<< <<"name", NameOf(err)>>, <<"message", MessageOf(err)>> >>)

\* the member named key of an object value (undefined when absent)
Member(obj, key) ==
  IF obj.t = "object" /\ \E i \in 1..Len(obj.v) : obj.v[i][1] = key
  THEN obj.v[CHOOSE i \in 1..Len(obj.v) : obj.v[i][1] = key][2]
  ELSE Undefined

(***************************************************************************)
(* JSON.stringify on the values the program passes to it: members whose    *)
(* value is undefined are left out of an object, an undefined array item   *)
(* is written null.                                                        *)
(***************************************************************************)
Quote(s) == "\"" \o s \o "\""

RECURSIVE JSONStringify(_)
RECURSIVE StringifyMembers(_, _)
RECURSIVE StringifyItems(_, _)

StringifyMembers(members, first) ==
  IF members = <<>> THEN ""
  ELSE IF Head(members)[2].t = "undefined"
       THEN StringifyMembers(Tail(members), first)
       ELSE (IF first THEN "" ELSE ",")
            \o Quote(Head(members)[1]) \o ":" \o JSONStringify(Head(members)[2])
            \o StringifyMembers(Tail(members), FALSE)

StringifyItems(items, first) ==
  IF items = <<>> THEN ""
  ELSE (IF first THEN "" ELSE ",")
       \o (IF Head(items).t = "undefined" THEN "null" ELSE JSONStringify(Head(items)))
       \o StringifyItems(Tail(items), FALSE)

JSONStringify(x) ==
  CASE x.t = "string" -> Quote(x.v)
    [] x.t \in {"number", "boolean"} -> x.v
    [] x.t = "null" -> "null"
    [] x.t = "object" -> "{" \o StringifyMembers(x.v, TRUE) \o "}"
    [] x.t = "array" -> "[" \o StringifyItems(x.v, TRUE) \o "]"

\* x.toString() of a number or a boolean
ToStringOf(x) == x.v

\* what JSON.parse(JSON.stringify(x)) is made of: x without its undefined parts
RECURSIVE JSONNormal(_)
RECURSIVE NormalMembers(_)
RECURSIVE NormalItems(_)

NormalMembers(members) ==
  IF members = <<>> THEN <<>>
  ELSE IF Head(members)[2].t = "undefined"
       THEN NormalMembers(Tail(members))
       ELSE << <<Head(members)[1], JSONNormal(Head(members)[2])>> >>
            \o NormalMembers(Tail(members))

NormalItems(items) ==
  IF items = <<>> THEN <<>>
  ELSE << (IF Head(items).t = "undefined" THEN Null ELSE JSONNormal(Head(items))) >>
       \o NormalItems(Tail(items))

JSONNormal(x) ==
  CASE x.t = "object" -> Obj(NormalMembers(x.v))
    [] x.t = "array" -> Arr(NormalItems(x.v))
    [] OTHER -> x

(***************************************************************************)
(* The inputs the model draws from.                                        *)
(***************************************************************************)
TaskName == "test-task"

ApplicationJSON == "application/json"
TextPlain == "text/plain"

\* the data handed to schedule (Undefined: schedule called with no argument)
Payloads ==
  { Obj(<< <<"someKey", Str("someValue")>> >>), Num("0"), Undefined }

\* what a work function fulfils with
ResultValues ==
  { Obj(<< <<"someKey", Str("someValue-after-work")>> >>),
    Str("done"), Num("42"), Undefined, Null }

\* what a work function throws or rejects with
ErrorMessages == { "error!!!" }
Faults ==
  { Error(Str(m)) : m \in ErrorMessages }
    \cup { InvalidOption(Str("input"), Str("required"), Undefined), Undefined }

\* the argument lists of a logger call
LogArguments == { << Str("test-1"), Obj(<< <<"info", Str("data")>> >>) >> }

LoggerMethods == { "log", "info", "warn", "error" }

\* the bodies and properties of deliveries published by other parties
ForeignContentTypes == { Str(ApplicationJSON), Str("application/not-json"), Undefined }
ForeignContents ==
  { Buf("{\"someKey\":\"someValue\"}"), Buf("not good json"), Undefined }
ForeignReplyTos == { Str("another-application-id-queue"), Undefined }

\* the data handed to publishUpdate when it is called on its own
CallData ==
  { Str("text contents"),
    Obj(<< <<"some", Str("data")>> >>),
    Arr(<< Num("1"), Null, Obj(<< <<"nested", Bool("true")>> >>) >>),
    Bool("true") }

\* the arguments of the constructors
ConstructorOptions ==
  { Undefined, Obj(<<>>), Obj(<< <<"name", Str("")>> >>),
    Obj(<< <<"appId", Str("c1")>> >>),
    Obj(<< <<"name", Str(TaskName)>> >>),
    Obj(<< <<"name", Str(TaskName)>>, <<"appId", Str("c1")>> >>) }
WorkerFns == { Undefined, Str("not a function"), Function }

\* the messages of the errors JSON.parse(message.content.toString()) raises
UnexpectedToken == "Unexpected token"
CannotReadToString == "Cannot read property 'toString' of undefined"

\* the faults handed to respondError when it is called on its own: the
\* four errors of the shared module, a built-in error, a thrown string and
\* no fault at all
CallFaults ==
  { InvalidOption(Str("input"), Str("required"), Undefined),
    InvalidOption(Str("input"), Str("required"), Str("input is required")),
    MalformedMessage(Str(UnexpectedToken)),
    UnsupportedContentType(Str("application/not-json")),
    NotConnected(Str("not connected")),
    Error(Str("error!!!")),
    Str("oops"),
    Undefined }

\* every fault respondError can be handed
PossibleErrors ==
  Faults
    \cup { UnsupportedContentType(ct) : ct \in ForeignContentTypes }
    \cup { MalformedMessage(Str(UnexpectedToken)),
           MalformedMessage(Str(CannotReadToString)),
           TypeError(Str(CannotReadToString)),
           InvalidOption(Str("sourceMessage"), Str("malformed"), Undefined) }

\* the JSON values that can be on the wire
WireValues ==
  { JSONNormal(x) :
      x \in (Payloads \ {Undefined}) \cup { Obj(<<>>) }
            \cup (ResultValues \ {Undefined})
            \cup { Arr(a) : a \in LogArguments }
            \cup CallData
            \cup { DefaultErrorToJSON(e) : e \in PossibleErrors \cup CallFaults }
            \cup { ToJSON(e) : e \in { f \in PossibleErrors \cup CallFaults :
                                         f.t = "error" } } }

(***************************************************************************)
(* JSON.parse: the value whose JSON text is the given text, a SyntaxError  *)
(* for any other text.                                                     *)
(***************************************************************************)
JSONParse(text) ==
  IF \E x \in WireValues : JSONStringify(x) = text
  THEN [threw |-> FALSE,
        value |-> CHOOSE x \in WireValues : JSONStringify(x) = text]
  ELSE [threw |-> TRUE, value |-> SyntaxError(Str(UnexpectedToken))]

\* JSON.parse(message.content.toString())
ParseContent(message) ==
  IF message.content.t = "buffer"
  THEN JSONParse(message.content.v)
  ELSE [threw |-> TRUE, value |-> TypeError(Str(CannotReadToString))]

(***************************************************************************)
(* Messages and the calls made on a channel.  Of the properties the code   *)
(* sets, persistent, contentEncoding, timestamp and the fresh messageId of *)
(* an Update Envelope are left out: no handler reads them.                 *)
(***************************************************************************)
Properties(contentType, replyTo, messageId, correlationId, type, appId) ==
  [t |-> "properties", contentType |-> contentType, replyTo |-> replyTo,
   messageId |-> messageId, correlationId |-> correlationId,
   type |-> type, appId |-> appId]

Message(properties, content) ==
  [t |-> "message", properties |-> properties, content |-> content]

PublishCall(exchange, routingKey, content, options) ==
  [op |-> "publish", exchange |-> exchange, routingKey |-> routingKey,
   content |-> content, options |-> options]
AckCall(message, allUpTo) == [op |-> "ack", message |-> message, allUpTo |-> allUpTo]
NackCall(message, allUpTo, requeue) ==
  [op |-> "nack", message |-> message, allUpTo |-> allUpTo, requeue |-> requeue]

\* the outcome of a method: the channel calls it made, and what it threw if it threw
Returned(calls) == [threw |-> FALSE, err |-> Undefined, calls |-> calls]
Threw(err, calls) == [threw |-> TRUE, err |-> err, calls |-> calls]

(***************************************************************************)
(* The instances.  A worker is constructed with options.name; the          *)
(* constructor sets workerExchangeName and workerQueueName and never       *)
(* taskExchangeName, the field publishUpdate reads.                        *)
(***************************************************************************)
WorkerExchangeName == TaskName \o "-exchange"
WorkerQueueName == TaskName
\* a reply queue shared by every requester of the task
UpdatesQueueNameShared(appId) == TaskName \o "-updates"
UpdatesQueueName(appId) == TaskName \o "-updates-" \o appId
TaskExchangeNameOfServer == Undefined

\* the names the requester's constructor derives from options.name
ClientWorkerExchangeName == TaskName \o "-exchange"
ClientWorkerQueueName == TaskName

(***************************************************************************)
(* The constructors.  Neither prototype defines name or workerFn, so       *)
(* `options.name || this.name` is options.name or undefined.  A fresh      *)
(* uuid.v4() is written "uuid".                                            *)
(***************************************************************************)
Instance(kind, name, appId) ==
  [t |-> "instance", kind |-> kind, name |-> name,
   workerExchangeName |-> name \o "-exchange", workerQueueName |-> name,
   appId |-> appId,
   updatesQueueName |-> IF kind = "HWorkerClient"
                        THEN Str(name \o "-updates-" \o appId) ELSE Undefined,
   channel |-> Undefined]

Constructed(instance) == [threw |-> FALSE, err |-> Undefined, instance |-> instance]
NotConstructed(err) == [threw |-> TRUE, err |-> err, instance |-> Undefined]

AppIdOf(options) ==
  IF Truthy(Member(options, "appId")) THEN Member(options, "appId").v ELSE "uuid"

\* new HWorkerClient(options)
HWorkerClient(options) ==
  IF ~Truthy(Member(options, "name"))
  THEN NotConstructed(InvalidOption(Str("name"), Str("required"), Undefined))
  ELSE Constructed(Instance("HWorkerClient", Member(options, "name").v, AppIdOf(options)))

\* a worker constructor that takes whatever it is given as the work function
HWorkerServerAnyFn(options, workerFn) ==
  IF ~Truthy(Member(options, "name"))
  THEN NotConstructed(InvalidOption(Str("name"), Str("required"), Undefined))
  ELSE Constructed(Instance("HWorkerServer", Member(options, "name").v, AppIdOf(options)))

\* new HWorkerServer(options, workerFn)
HWorkerServer(options, workerFn) ==
  IF workerFn.t # "function"
  THEN NotConstructed(InvalidOption(Str("workerFn"), Str("required"), Undefined))
  ELSE IF ~Truthy(Member(options, "name"))
  THEN NotConstructed(InvalidOption(Str("name"), Str("required"), Undefined))
  ELSE Constructed(Instance("HWorkerServer", Member(options, "name").v, AppIdOf(options)))

\* a connect that reports a missing connection as NotConnected
ConnectEntryNotConnected(connectionOrURI) ==
  IF ~Truthy(connectionOrURI)
  THEN Threw(NotConnected(Str("not connected")), <<>>)
  ELSE Returned(<<>>)

\* the first statement of connect(connectionOrURI), on both sides: the
\* promise returned is rejected, or the chain of callbacks starts
ConnectEntry(connectionOrURI) ==
  IF ~Truthy(connectionOrURI)
  THEN Threw(InvalidOption(Str("connectionOrURI"), Str("required"), Undefined), <<>>)
  ELSE Returned(<<>>)

\* src/shared/mq-topology.js, which no other file requires: the test of the
\* three names made before the channel is created
SetupMQTopology(exchangeName, taskQueueName, resultsQueueName) ==
  IF ~Truthy(exchangeName) \/ ~Truthy(taskQueueName) \/ ~Truthy(resultsQueueName)
  THEN Threw(Error(Str("required options")), <<>>)
  ELSE Returned(<<>>)

(***************************************************************************)
(* src/server/messaging.js                                                 *)
(***************************************************************************)
\* the "make sure data is in buffer format" branches of publishUpdate
EncodeData(data) ==
  IF data.t = "string"
  THEN [threw |-> FALSE, contentType |-> TextPlain, text |-> data.v]
  ELSE IF InstanceOfObject(data)
  THEN [threw |-> FALSE, contentType |-> ApplicationJSON, text |-> JSONStringify(data)]
  ELSE IF data.t \in {"undefined", "null"}
  THEN [threw |-> TRUE, contentType |-> TextPlain, text |-> ""]
  ELSE [threw |-> FALSE, contentType |-> TextPlain, text |-> ToStringOf(data)]

\* a publishUpdate that tags the update with the worker's own identity
PublishUpdateOwnId(appId, sourceMessage, data, type) ==
  IF \/ ~Truthy(sourceMessage)
     \/ ~Truthy(sourceMessage.properties)
     \/ ~Truthy(sourceMessage.properties.replyTo)
  THEN Threw(InvalidOption(Str("sourceMessage"), Str("malformed"), Undefined), <<>>)
  ELSE Returned(<< PublishCall(
                     TaskExchangeNameOfServer,
                     sourceMessage.properties.replyTo,
                     Buf(EncodeData(data).text),
                     Properties(Str(EncodeData(data).contentType), Undefined, Undefined,
                                Str(appId), Str(type), Str(appId))) >>)

\* a publishUpdate that publishes through the exchange of the task
PublishUpdateNamedExchange(appId, sourceMessage, data, type) ==
  IF \/ ~Truthy(sourceMessage)
     \/ ~Truthy(sourceMessage.properties)
     \/ ~Truthy(sourceMessage.properties.replyTo)
  THEN Threw(InvalidOption(Str("sourceMessage"), Str("malformed"), Undefined), <<>>)
  ELSE LET encoded == EncodeData(data)
       IN IF encoded.threw
          THEN Threw(TypeError(Str(CannotReadToString)), <<>>)
          ELSE Returned(<< PublishCall(
                             Str(TaskName \o "-exchange"),
                             sourceMessage.properties.replyTo,
                             Buf(encoded.text),
                             Properties(Str(encoded.contentType), Undefined, Undefined,
                                        sourceMessage.properties.messageId,
                                        Str(type), Str(appId))) >>)

\* a publishUpdate that does not look for the replyTo of the source message
PublishUpdateAnyReplyTo(appId, sourceMessage, data, type) ==
  IF ~Truthy(sourceMessage) \/ ~Truthy(sourceMessage.properties)
  THEN Threw(InvalidOption(Str("sourceMessage"), Str("malformed"), Undefined), <<>>)
  ELSE LET encoded == EncodeData(data)
       IN IF encoded.threw
          THEN Threw(TypeError(Str(CannotReadToString)), <<>>)
          ELSE Returned(<< PublishCall(
                             TaskExchangeNameOfServer,
                             sourceMessage.properties.replyTo,
                             Buf(encoded.text),
                             Properties(Str(encoded.contentType), Undefined, Undefined,
                                        sourceMessage.properties.messageId,
                                        Str(type), Str(appId))) >>)

\* publishUpdate(sourceMessage, data, options) with options = {type: type}
PublishUpdate(appId, sourceMessage, data, type) ==
  IF \/ ~Truthy(sourceMessage)
     \/ ~Truthy(sourceMessage.properties)
     \/ ~Truthy(sourceMessage.properties.replyTo)
  THEN Threw(InvalidOption(Str("sourceMessage"), Str("malformed"), Undefined), <<>>)
  ELSE LET encoded == EncodeData(data)
       IN IF encoded.threw
          THEN Threw(TypeError(Str(CannotReadToString)), <<>>)
          ELSE Returned(<< PublishCall(
                             TaskExchangeNameOfServer,
                             sourceMessage.properties.replyTo,
                             Buf(encoded.text),
                             Properties(Str(encoded.contentType), Undefined, Undefined,
                                        sourceMessage.properties.messageId,
                                        Str(type), Str(appId))) >>)

\* a respondSuccess that acks every delivery up to the one it answers
RespondSuccessAllUpTo(appId, sourceMessage, result) ==
  LET acked == << AckCall(sourceMessage, TRUE) >>
      pub == PublishUpdate(appId, sourceMessage, result, "result:success")
  IN IF pub.threw THEN Threw(pub.err, acked)
     ELSE Returned(acked \o pub.calls)

\* respondSuccess(sourceMessage, result)
RespondSuccess(appId, sourceMessage, result) ==
  LET acked == << AckCall(sourceMessage, FALSE) >>
      pub == PublishUpdate(appId, sourceMessage, result, "result:success")
  IN IF pub.threw THEN Threw(pub.err, acked)
     ELSE Returned(acked \o pub.calls)

\* a respondError that asks the broker to requeue the delivery
RespondErrorRequeue(appId, sourceMessage, err) ==
  IF err.t \in {"undefined", "null"}
  THEN Threw(TypeError(Str("Cannot read property 'toJSON' of undefined")), <<>>)
  ELSE LET pub == PublishUpdate(appId, sourceMessage, DefaultErrorToJSON(err), "result:error")
       IN IF pub.threw THEN Threw(pub.err, <<>>)
          ELSE Returned(pub.calls \o << NackCall(sourceMessage, FALSE, TRUE) >>)

\* a respondError that describes every fault by its name and message
RespondErrorDefaultDescription(appId, sourceMessage, err) ==
  IF err.t \in {"undefined", "null"}
  THEN Threw(TypeError(Str("Cannot read property 'toJSON' of undefined")), <<>>)
  ELSE LET pub == PublishUpdate(appId, sourceMessage, DefaultErrorToJSON(err), "result:error")
       IN IF pub.threw THEN Threw(pub.err, <<>>)
          ELSE Returned(pub.calls \o << NackCall(sourceMessage, FALSE, FALSE) >>)

\* respondError(sourceMessage, err)
RespondError(appId, sourceMessage, err) ==
  IF err.t \in {"undefined", "null"}
  THEN Threw(TypeError(Str("Cannot read property 'toJSON' of undefined")), <<>>)
  ELSE LET errData == IF err.t = "error" /\ err.toJSON # "none"
                      THEN ToJSON(err)
                      ELSE DefaultErrorToJSON(err)
           pub == PublishUpdate(appId, sourceMessage, errData, "result:error")
       IN IF pub.threw THEN Threw(pub.err, <<>>)
          ELSE Returned(pub.calls \o << NackCall(sourceMessage, FALSE, FALSE) >>)

\* a logger whose every method publishes log:info
LoggerTypeInfo(method) == "log:info"

\* logInfo / logWarning / logError, as bound by _makeLogger
LoggerType(method) ==
  CASE method \in {"log", "info"} -> "log:info"
    [] method = "warn" -> "log:warning"
    [] method = "error" -> "log:error"

LoggerCall(appId, sourceMessage, method, arguments) ==
  PublishUpdate(appId, sourceMessage, Arr(arguments), LoggerType(method))

\* a handleMessage that rejects an empty delivery on the channel
HandleMessageEntryNackEmpty(appId, message) ==
  IF ~Truthy(message)
  THEN [step |-> "responded", payload |-> Undefined,
        out |-> Returned(<< NackCall(message, FALSE, FALSE) >>)]
  ELSE IF message.properties.contentType # Str(ApplicationJSON)
  THEN [step |-> "responded", payload |-> Undefined,
        out |-> RespondError(appId, message,
                  UnsupportedContentType(message.properties.contentType))]
  ELSE LET parsed == ParseContent(message)
       IN IF parsed.threw
          THEN [step |-> "responded", payload |-> Undefined,
                out |-> RespondError(appId, message,
                          MalformedMessage(parsed.value.message))]
          ELSE [step |-> "invoke", payload |-> parsed.value, out |-> Returned(<<>>)]

(***************************************************************************)
(* src/server/index.js: the synchronous part of handleMessage, up to the   *)
(* invocation of the work function.                                        *)
(***************************************************************************)
HandleMessageEntry(appId, message) ==
  IF ~Truthy(message)
  THEN [step |-> "ignored", payload |-> Undefined, out |-> Returned(<<>>)]
  ELSE IF message.properties.contentType # Str(ApplicationJSON)
  THEN [step |-> "responded", payload |-> Undefined,
        out |-> RespondError(appId, message,
                  UnsupportedContentType(message.properties.contentType))]
  ELSE LET parsed == ParseContent(message)
       IN IF parsed.threw
          THEN [step |-> "responded", payload |-> Undefined,
                out |-> RespondError(appId, message,
                          MalformedMessage(parsed.value.message))]
          ELSE [step |-> "invoke", payload |-> parsed.value, out |-> Returned(<<>>)]

(***************************************************************************)
(* src/client/index.js                                                     *)
(***************************************************************************)
\* a schedule without the test of this.channel
ScheduleUnguarded(appId, channel, data, requestId) ==
  Returned(<< PublishCall(
                Str(ClientWorkerExchangeName),
                Str(ClientWorkerQueueName),
                Buf(JSONStringify(IF Truthy(data) THEN data ELSE Obj(<<>>))),
                Properties(Str(ApplicationJSON), Str(UpdatesQueueName(appId)),
                           requestId, Undefined,
                           Str("work-request"), Str(appId))) >>)

\* a schedule that uses the exchange's name as the routing key
ScheduleExchangeKey(appId, channel, data, requestId) ==
  IF ~channel
  THEN Threw(NotConnected(Str("not connected")), <<>>)
  ELSE Returned(<< PublishCall(
                     Str(ClientWorkerExchangeName),
                     Str(ClientWorkerExchangeName),
                     Buf(JSONStringify(IF Truthy(data) THEN data ELSE Obj(<<>>))),
                     Properties(Str(ApplicationJSON), Str(UpdatesQueueName(appId)),
                                requestId, Undefined,
                                Str("work-request"), Str(appId))) >>)

\* schedule(data) on an instance whose channel field is channel
Schedule(appId, channel, data, requestId) ==
  IF ~channel
  THEN Threw(NotConnected(Str("not connected")), <<>>)
  ELSE LET body == IF Truthy(data) THEN data ELSE Obj(<<>>)
       IN Returned(<< PublishCall(
                        Str(ClientWorkerExchangeName),
                        Str(ClientWorkerQueueName),
                        Buf(JSONStringify(body)),
                        Properties(Str(ApplicationJSON), Str(UpdatesQueueName(appId)),
                                   requestId, Undefined,
                                   Str("work-request"), Str(appId))) >>)

UpdateTypes == { "result:success", "result:error", "log:info", "log:warning", "log:error" }

Emitted(name, requestId, payload) ==
  [name |-> name, requestId |-> requestId, payload |-> payload]

\* a handler that does not look for the correlationId
HandleUpdateMessageUnkeyed(message) ==
  IF ~Truthy(message) \/ ~Truthy(message.properties)
  THEN [threw |-> FALSE, err |-> Undefined, emitted |-> <<>>]
  ELSE LET parsed == IF message.properties.contentType = Str(ApplicationJSON)
                     THEN ParseContent(message)
                     ELSE [threw |-> FALSE, value |-> message.content]
       IN IF parsed.threw
          THEN [threw |-> TRUE, err |-> parsed.value, emitted |-> <<>>]
          ELSE IF message.properties.type.t = "string"
                  /\ message.properties.type.v \in UpdateTypes
          THEN [threw |-> FALSE, err |-> Undefined,
                emitted |-> << Emitted(message.properties.type.v,
                                       message.properties.correlationId, parsed.value) >>]
          ELSE [threw |-> FALSE, err |-> Undefined, emitted |-> <<>>]

\* a handler whose switch throws in its default case
HandleUpdateMessageStrict(message) ==
  IF \/ ~Truthy(message)
     \/ ~Truthy(message.properties)
     \/ ~Truthy(message.properties.correlationId)
  THEN [threw |-> FALSE, err |-> Undefined, emitted |-> <<>>]
  ELSE LET parsed == IF message.properties.contentType = Str(ApplicationJSON)
                     THEN ParseContent(message)
                     ELSE [threw |-> FALSE, value |-> message.content]
       IN IF parsed.threw
          THEN [threw |-> TRUE, err |-> parsed.value, emitted |-> <<>>]
          ELSE IF message.properties.type.t = "string"
                  /\ message.properties.type.v \in UpdateTypes
          THEN [threw |-> FALSE, err |-> Undefined,
                emitted |-> << Emitted(message.properties.type.v,
                                       message.properties.correlationId, parsed.value) >>]
          ELSE [threw |-> TRUE, err |-> Error(Str("unkown workload update type")),
                emitted |-> <<>>]

\* a handler that passes every content on without parsing it
HandleUpdateMessageRaw(message) ==
  IF \/ ~Truthy(message)
     \/ ~Truthy(message.properties)
     \/ ~Truthy(message.properties.correlationId)
  THEN [threw |-> FALSE, err |-> Undefined, emitted |-> <<>>]
  ELSE IF message.properties.type.t = "string"
          /\ message.properties.type.v \in UpdateTypes
  THEN [threw |-> FALSE, err |-> Undefined,
        emitted |-> << Emitted(message.properties.type.v,
                               message.properties.correlationId, message.content) >>]
  ELSE [threw |-> FALSE, err |-> Undefined, emitted |-> <<>>]

\* handleUpdateMessage(message): the events emitted, or what it threw
HandleUpdateMessage(message) ==
  IF \/ ~Truthy(message)
     \/ ~Truthy(message.properties)
     \/ ~Truthy(message.properties.correlationId)
  THEN [threw |-> FALSE, err |-> Undefined, emitted |-> <<>>]
  ELSE LET requestId == message.properties.correlationId
           parsed == IF message.properties.contentType = Str(ApplicationJSON)
                     THEN ParseContent(message)
                     ELSE [threw |-> FALSE, value |-> message.content]
       IN IF parsed.threw
          THEN [threw |-> TRUE, err |-> parsed.value, emitted |-> <<>>]
          ELSE IF message.properties.type.t = "string"
                  /\ message.properties.type.v \in UpdateTypes
          THEN [threw |-> FALSE, err |-> Undefined,
                emitted |-> << Emitted(message.properties.type.v, requestId, parsed.value) >>]
          ELSE [threw |-> FALSE, err |-> Undefined, emitted |-> <<>>]

(***************************************************************************)
(* The broker: declared queues, exchanges and bindings, and the routing of *)
(* a publish.  A publish whose exchange is undefined or "" goes through    *)
(* the default exchange, to which every queue is bound by its name.        *)
(***************************************************************************)
Clients == { "c1" }
Workers == { "w1" }

ForeignReplyQueue == "another-application-id-queue"
QueueNames ==
  { WorkerQueueName, ForeignReplyQueue } \cup { UpdatesQueueName(c) : c \in Clients }

Route(declared, exchanges, bindings, exchange, routingKey) ==
  IF routingKey.t # "string" THEN {}
  ELSE IF exchange.t = "undefined" \/ exchange = Str("")
  THEN { q \in declared : q = routingKey.v }
  ELSE IF exchange.t = "string" /\ exchange.v \in exchanges
  THEN { q \in declared : <<q, exchange.v, routingKey.v>> \in bindings }
  ELSE {}

RECURSIVE Publish(_, _, _, _, _)
Publish(queues, declared, exchanges, bindings, calls) ==
  IF calls = <<>> THEN queues
  ELSE LET call == Head(calls)
           routed == IF call.op = "publish"
                     THEN [q \in DOMAIN queues |->
                            IF q \in Route(declared, exchanges, bindings,
                                           call.exchange, call.routingKey)
                            THEN Append(queues[q], Message(call.options, call.content))
                            ELSE queues[q]]
                     ELSE queues
       IN Publish(routed, declared, exchanges, bindings, Tail(calls))

(***************************************************************************)
(* Bounds of the model.                                                    *)
(***************************************************************************)
\* schedule calls plus deliveries published by other parties
MaxEnvelopes == 1
\* logger calls of one execution of the work function
MaxLogs == 2

\* HWorkerServer.prototype.prefetch
DefaultPrefetch == 1
\* options.prefetch: 0 stands for an option that was not given
PrefetchOptions == { 0, 2 }
\* the option passed on without the prototype's default
PrefetchOfOption(option) == option
PrefetchOf(option) == IF option # 0 THEN option ELSE DefaultPrefetch

(***************************************************************************)
(* State.                                                                  *)
(***************************************************************************)
VARIABLES
  client,    \* [Clients -> [pc, channel]]: connect's progress, this.channel set
  worker,    \* [Workers -> [pc, channel, option, prefetch, limit]]
  broker,    \* [declared, exchanges, bindings]
  queue,     \* [QueueNames -> Seq(message)]: the messages held by each queue
  delivery,  \* Seq of the deliveries handed to a worker's handleMessage
  submits,   \* Seq of the schedule calls made, with their outcome
  events,    \* [Clients -> Seq(event)]: the events each requester emitted
  foreign,   \* number of deliveries published by other parties
  inbound,   \* [Clients -> Seq]: the calls of handleUpdateMessage, with their outcome
  direct     \* Seq of the calls made on an instance's methods, with their outcome

vars == << client, worker, broker, queue, delivery, submits, events, foreign, inbound, direct >>

NoOutcome == [kind |-> "none", value |-> Undefined]

Init ==
  /\ client = [c \in Clients |-> [pc |-> "constructed", channel |-> FALSE]]
  /\ worker \in [Workers -> { [pc |-> "constructed", channel |-> FALSE, option |-> o,
                               prefetch |-> PrefetchOf(o), limit |-> 0]
                              : o \in PrefetchOptions }]
  /\ broker = [declared |-> {}, exchanges |-> {}, bindings |-> {}]
  /\ queue = [q \in QueueNames |-> <<>>]
  /\ delivery = <<>>
  /\ submits = <<>>
  /\ events = [c \in Clients |-> <<>>]
  /\ foreign = 0
  /\ inbound = [c \in Clients |-> <<>>]
  /\ direct = <<>>

\* the queues after the broker has routed the publishes among calls
Routed(calls) ==
  Publish(queue, broker.declared, broker.exchanges, broker.bindings, calls)

\* the queues after the broker has also taken the acks and nacks among calls,
\* all of them for message: a nack that asks for it puts message back at the
\* head of the queue it was delivered from
Requeued(queues, calls, message, from) ==
  IF \E k \in 1..Len(calls) : calls[k].op = "nack" /\ calls[k].requeue
  THEN [queues EXCEPT ![from] = << message >> \o @]
  ELSE queues

(***************************************************************************)
(* HWorkerClient.prototype.connect, one action per promise callback.       *)
(***************************************************************************)
\* connect(connectionOrURI) with a connection: createConfirmChannel is issued
ClientConnect(c) ==
  /\ client[c].pc = "constructed"
  /\ client' = [client EXCEPT ![c].pc = "creatingChannel"]
  /\ UNCHANGED << worker, broker, queue, delivery, submits, events, foreign, inbound, direct >>

\* a requester that also binds its reply queue to the exchange
ClientAssertBindingUpdates(c) ==
  /\ client[c].pc = "creatingChannel"
  /\ client' = [client EXCEPT ![c].pc = "asserting"]
  /\ broker' = [declared |-> broker.declared
                               \cup { ClientWorkerQueueName, UpdatesQueueName(c) },
                exchanges |-> broker.exchanges \cup { ClientWorkerExchangeName },
                bindings |-> broker.bindings
                               \cup { <<ClientWorkerQueueName, ClientWorkerExchangeName,
                                        ClientWorkerQueueName>>,
                                      <<UpdatesQueueName(c), ClientWorkerExchangeName,
                                        UpdatesQueueName(c)>> }]
  /\ UNCHANGED << worker, queue, delivery, submits, events, foreign, inbound, direct >>

\* the channel is open: the two queues, the exchange and the binding are asserted
ClientAssert(c) ==
  /\ client[c].pc = "creatingChannel"
  /\ client' = [client EXCEPT ![c].pc = "asserting"]
  /\ broker' = [declared |-> broker.declared
                               \cup { ClientWorkerQueueName, UpdatesQueueName(c) },
                exchanges |-> broker.exchanges \cup { ClientWorkerExchangeName },
                bindings |-> broker.bindings
                               \cup { <<ClientWorkerQueueName, ClientWorkerExchangeName,
                                        ClientWorkerQueueName>> }]
  /\ UNCHANGED << worker, queue, delivery, submits, events, foreign, inbound, direct >>

\* the asserts are answered: this.channel is set and consume is issued
ClientConsume(c) ==
  /\ client[c].pc = "asserting"
  /\ client' = [client EXCEPT ![c] = [pc |-> "consuming", channel |-> TRUE]]
  /\ UNCHANGED << worker, broker, queue, delivery, submits, events, foreign, inbound, direct >>

\* consume is answered: the reply-queue consumer is established, connect resolves
ClientConnected(c) ==
  /\ client[c].pc = "consuming"
  /\ client' = [client EXCEPT ![c].pc = "connected"]
  /\ UNCHANGED << worker, broker, queue, delivery, submits, events, foreign, inbound, direct >>

(***************************************************************************)
(* HWorkerClient.prototype.schedule and the reply-queue consumer.          *)
(***************************************************************************)
RequestId(n) == Str("request-" \o ToString(n))

\* schedule(data) is called on requester c
Scheduling(c, data) ==
  /\ LET requestId == RequestId(Len(submits) + 1)
         out == Schedule(c, client[c].channel, data, requestId)
     IN /\ submits' = Append(submits,
                        [client |-> c, data |-> data, threw |-> out.threw,
                         err |-> out.err, calls |-> out.calls,
                         requestId |-> IF out.threw THEN Undefined ELSE requestId,
                         pc |-> client[c].pc])
        /\ queue' = Routed(out.calls)
  /\ UNCHANGED << client, worker, broker, delivery, events, foreign, inbound, direct >>

ClientSchedule(c, data) ==
  /\ Len(submits) + foreign < MaxEnvelopes
  /\ Scheduling(c, data)

\* a requester that emits only the updates of the requests it has submitted
ClientReceivePending(c) ==
  /\ client[c].pc = "connected"
  /\ queue[UpdatesQueueName(c)] # <<>>
  /\ LET message == Head(queue[UpdatesQueueName(c)])
         out == HandleUpdateMessage(message)
         pending == \E n \in 1..Len(submits) :
                      /\ submits[n].client = c
                      /\ out.emitted # <<>>
                      /\ out.emitted[1].requestId = submits[n].requestId
         emitted == IF pending THEN out.emitted ELSE <<>>
     IN /\ events' = [events EXCEPT ![c] = @ \o emitted]
        /\ inbound' = [inbound EXCEPT ![c] =
                         Append(@, [message |-> message, threw |-> out.threw,
                                    err |-> out.err, emitted |-> emitted])]
  /\ queue' = [queue EXCEPT ![UpdatesQueueName(c)] = Tail(@)]
  /\ UNCHANGED << client, worker, broker, delivery, submits, foreign, direct >>

\* the broker hands the head of the reply queue to handleUpdateMessage
ClientReceive(c) ==
  /\ client[c].pc = "connected"
  /\ queue[UpdatesQueueName(c)] # <<>>
  /\ LET message == Head(queue[UpdatesQueueName(c)])
         out == HandleUpdateMessage(message)
     IN /\ events' = [events EXCEPT ![c] = @ \o out.emitted]
        /\ inbound' = [inbound EXCEPT ![c] =
                         Append(@, [message |-> message, threw |-> out.threw,
                                    err |-> out.err, emitted |-> out.emitted])]
  /\ queue' = [queue EXCEPT ![UpdatesQueueName(c)] = Tail(@)]
  /\ UNCHANGED << client, worker, broker, delivery, submits, foreign, direct >>

(***************************************************************************)
(* Another publisher puts a delivery of any shape on the work queue (the   *)
(* tests hand such messages to handleMessage).                             *)
(***************************************************************************)
ForeignPublishing(contentType, content, replyTo) ==
  /\ WorkerExchangeName \in broker.exchanges
  /\ foreign' = foreign + 1
  /\ queue' = Routed(<< PublishCall(
                          Str(WorkerExchangeName), Str(WorkerQueueName), content,
                          Properties(contentType, replyTo, Undefined, Undefined,
                                     Undefined, Undefined)) >>)
  /\ UNCHANGED << client, worker, broker, delivery, submits, events, inbound, direct >>

ForeignPublish(contentType, content, replyTo) ==
  /\ Len(submits) + foreign < MaxEnvelopes
  /\ ForeignPublishing(contentType, content, replyTo)

(***************************************************************************)
(* HWorkerServer.prototype.connect, one action per promise callback.       *)
(***************************************************************************)
\* connect(connectionOrURI) with a connection: createChannel is issued
WorkerConnect(w) ==
  /\ worker[w].pc = "constructed"
  /\ worker' = [worker EXCEPT ![w].pc = "creatingChannel"]
  /\ UNCHANGED << client, broker, queue, delivery, submits, events, foreign, inbound, direct >>

\* the channel is open: channel.prefetch(this.prefetch, true) is issued
WorkerPrefetch(w) ==
  /\ worker[w].pc = "creatingChannel"
  /\ worker' = [worker EXCEPT ![w].pc = "prefetching", ![w].limit = worker[w].prefetch]
  /\ UNCHANGED << client, broker, queue, delivery, submits, events, foreign, inbound, direct >>

\* prefetch is answered: the work queue, the exchange and the binding are asserted
WorkerAssert(w) ==
  /\ worker[w].pc = "prefetching"
  /\ worker' = [worker EXCEPT ![w].pc = "asserting"]
  /\ broker' = [declared |-> broker.declared \cup { WorkerQueueName },
                exchanges |-> broker.exchanges \cup { WorkerExchangeName },
                bindings |-> broker.bindings
                               \cup { <<WorkerQueueName, WorkerExchangeName, WorkerQueueName>> }]
  /\ UNCHANGED << client, queue, delivery, submits, events, foreign, inbound, direct >>

\* a connect that issues consume as soon as prefetch is answered
WorkerConsumeEarly(w) ==
  /\ worker[w].pc = "prefetching"
  /\ worker' = [worker EXCEPT ![w].pc = "consuming", ![w].channel = TRUE]
  /\ UNCHANGED << client, broker, queue, delivery, submits, events, foreign, inbound, direct >>

\* the asserts are answered: this.channel is set and consume is issued
WorkerConsume(w) ==
  /\ worker[w].pc = "asserting"
  /\ worker' = [worker EXCEPT ![w].pc = "consuming", ![w].channel = TRUE]
  /\ UNCHANGED << client, broker, queue, delivery, submits, events, foreign, inbound, direct >>

(***************************************************************************)
(* HWorkerServer.prototype.handleMessage.  WorkerReceive is the call the   *)
(* broker makes with the head of the work queue, up to the invocation of   *)
(* the work function; the work function then runs (WorkerLog, WorkerFn),   *)
(* and the promise callbacks follow (WorkerThen, WorkerCatch).             *)
(***************************************************************************)
Settled(d) == \E i \in 1..Len(d.calls) : d.calls[i].op \in {"ack", "nack"}

\* handleMessage has returned (or thrown) and its promise has settled
Finished(d) == d.pc \in {"done", "threw", "unhandled"}

Unacked(w) ==
  Cardinality({ i \in 1..Len(delivery) : delivery[i].worker = w /\ ~Settled(delivery[i]) })

WorkerReceive(w) ==
  /\ worker[w].pc = "consuming"
  /\ queue[WorkerQueueName] # <<>>
  /\ worker[w].limit = 0 \/ Unacked(w) < worker[w].limit
  /\ LET message == Head(queue[WorkerQueueName])
         entry == HandleMessageEntry(w, message)
     IN /\ delivery' = Append(delivery,
                         [worker |-> w, message |-> message,
                          pc |-> CASE entry.step = "invoke" -> "executing"
                                   [] entry.out.threw -> "threw"
                                   [] OTHER -> "done",
                          invoked |-> entry.step = "invoke",
                          payload |-> entry.payload,
                          logs |-> <<>>,
                          outcome |-> NoOutcome,
                          err |-> entry.out.err,
                          calls |-> entry.out.calls])
        /\ queue' = Requeued([Routed(entry.out.calls) EXCEPT ![WorkerQueueName] = Tail(@)],
                             entry.out.calls, message, WorkerQueueName)
  /\ UNCHANGED << client, worker, broker, submits, events, foreign, inbound, direct >>

\* a logger whose publish is issued ahead of the ones already issued
LoggingAhead(i, method, arguments, caught) ==
  /\ delivery[i].pc = "executing"
  /\ LET d == delivery[i]
         out == LoggerCall(d.worker, d.message, method, arguments)
     IN /\ delivery' = [delivery EXCEPT ![i] =
                          [d EXCEPT !.logs = Append(@, [method |-> method,
                                                        arguments |-> arguments,
                                                        threw |-> out.threw]),
                                    !.calls = out.calls \o @,
                                    !.pc = IF out.threw /\ ~caught THEN "rejected" ELSE @,
                                    !.outcome = IF out.threw /\ ~caught
                                                THEN [kind |-> "throw", value |-> out.err]
                                                ELSE @,
                                    !.err = IF out.threw /\ ~caught THEN out.err ELSE @]]
        /\ out.threw \/ ~caught
        /\ queue' = Routed(out.calls)
  /\ UNCHANGED << client, worker, broker, submits, events, foreign, inbound, direct >>

\* the work function calls logger[method](arguments); a call that throws
\* either ends the work function with that error or is caught by it
Logging(i, method, arguments, caught) ==
  /\ delivery[i].pc = "executing"
  /\ LET d == delivery[i]
         out == LoggerCall(d.worker, d.message, method, arguments)
     IN /\ delivery' = [delivery EXCEPT ![i] =
                          [d EXCEPT !.logs = Append(@, [method |-> method,
                                                        arguments |-> arguments,
                                                        threw |-> out.threw]),
                                    !.calls = @ \o out.calls,
                                    !.pc = IF out.threw /\ ~caught THEN "rejected" ELSE @,
                                    !.outcome = IF out.threw /\ ~caught
                                                THEN [kind |-> "throw", value |-> out.err]
                                                ELSE @,
                                    !.err = IF out.threw /\ ~caught THEN out.err ELSE @]]
        /\ out.threw \/ ~caught
        /\ queue' = Routed(out.calls)
  /\ UNCHANGED << client, worker, broker, submits, events, foreign, inbound, direct >>

WorkerLog(i, method, arguments, caught) ==
  /\ Len(delivery[i].logs) < MaxLogs
  /\ Logging(i, method, arguments, caught)

\* the work function finishes: it returns value, returns a promise that
\* resolves with value, throws value, or returns a promise that rejects with it
OutcomeKinds == { "return", "resolve", "throw", "reject" }

\* a work function whose synchronous throw leaves handleMessage instead of
\* rejecting the promise
WorkerFnThrowEscapes(i, kind, value) ==
  /\ delivery[i].pc = "executing"
  /\ \/ kind \in {"return", "resolve"} /\ value \in ResultValues
     \/ kind \in {"throw", "reject"} /\ value \in Faults
  /\ delivery' = [delivery EXCEPT ![i] =
                    [@ EXCEPT !.outcome = [kind |-> kind, value |-> value],
                              !.pc = CASE kind \in {"return", "resolve"} -> "fulfilled"
                                       [] kind = "throw" -> "threw"
                                       [] OTHER -> "rejected",
                              !.err = IF kind \in {"return", "resolve"}
                                      THEN Undefined ELSE value]]
  /\ UNCHANGED << client, worker, broker, queue, submits, events, foreign, inbound, direct >>

\* the work function ends: it returns value or throws it (return, throw), or
\* the promise it returned is fulfilled or rejected with value (resolve, reject)
WorkerFn(i, kind, value) ==
  /\ delivery[i].pc = "executing"
  /\ \/ kind \in {"return", "resolve"} /\ value \in ResultValues
     \/ kind \in {"throw", "reject"} /\ value \in Faults
  /\ delivery' = [delivery EXCEPT ![i] =
                    [@ EXCEPT !.outcome = [kind |-> kind, value |-> value],
                              !.pc = IF kind \in {"return", "resolve"}
                                     THEN "fulfilled" ELSE "rejected",
                              !.err = IF kind \in {"return", "resolve"}
                                      THEN Undefined ELSE value]]
  /\ UNCHANGED << client, worker, broker, queue, submits, events, foreign, inbound, direct >>

\* a worker that keeps the delivery it is handling in a field of the
\* instance: respondSuccess answers the delivery the worker received last
WorkerThenLatest(i) ==
  /\ delivery[i].pc = "fulfilled"
  /\ LET d == delivery[i]
         latest == CHOOSE j \in 1..Len(delivery) :
                     /\ delivery[j].worker = d.worker
                     /\ \A l \in 1..Len(delivery) : delivery[l].worker = d.worker => l <= j
         out == RespondSuccess(d.worker, delivery[latest].message, d.outcome.value)
     IN /\ delivery' = [delivery EXCEPT ![i] =
                          [d EXCEPT !.calls = @ \o out.calls,
                                    !.pc = IF out.threw THEN "rejected" ELSE "done",
                                    !.err = out.err]]
        /\ queue' = Requeued(Routed(out.calls), out.calls, d.message, WorkerQueueName)
  /\ UNCHANGED << client, worker, broker, submits, events, foreign, inbound, direct >>

\* .then(this.respondSuccess.bind(this, message))
WorkerThen(i) ==
  /\ delivery[i].pc = "fulfilled"
  /\ LET d == delivery[i]
         out == RespondSuccess(d.worker, d.message, d.outcome.value)
     IN /\ delivery' = [delivery EXCEPT ![i] =
                          [d EXCEPT !.calls = @ \o out.calls,
                                    !.pc = IF out.threw THEN "rejected" ELSE "done",
                                    !.err = out.err]]
        /\ queue' = Requeued(Routed(out.calls), out.calls, d.message, WorkerQueueName)
  /\ UNCHANGED << client, worker, broker, submits, events, foreign, inbound, direct >>

\* .catch(this.handleError.bind(this, message)): handleError calls respondError
WorkerCatch(i) ==
  /\ delivery[i].pc = "rejected"
  /\ LET d == delivery[i]
         out == RespondError(d.worker, d.message, d.err)
     IN /\ delivery' = [delivery EXCEPT ![i] =
                          [d EXCEPT !.calls = @ \o out.calls,
                                    !.pc = IF out.threw THEN "unhandled" ELSE "done",
                                    !.err = out.err]]
        /\ queue' = Requeued(Routed(out.calls), out.calls, d.message, WorkerQueueName)
  /\ UNCHANGED << client, worker, broker, submits, events, foreign, inbound, direct >>

Next ==
  \/ \E c \in Clients : ClientConnect(c)
  \/ \E c \in Clients : ClientAssert(c)
  \/ \E c \in Clients : ClientConsume(c)
  \/ \E c \in Clients : ClientConnected(c)
  \/ \E c \in Clients, data \in Payloads : ClientSchedule(c, data)
  \/ \E c \in Clients : ClientReceive(c)
  \/ \E contentType \in ForeignContentTypes, content \in ForeignContents,
        replyTo \in ForeignReplyTos : ForeignPublish(contentType, content, replyTo)
  \/ \E w \in Workers : WorkerConnect(w)
  \/ \E w \in Workers : WorkerPrefetch(w)
  \/ \E w \in Workers : WorkerAssert(w)
  \/ \E w \in Workers : WorkerConsume(w)
  \/ \E w \in Workers : WorkerReceive(w)
  \/ \E i \in 1..Len(delivery), method \in LoggerMethods, arguments \in LogArguments,
        caught \in BOOLEAN : WorkerLog(i, method, arguments, caught)
  \/ \E i \in 1..Len(delivery), kind \in OutcomeKinds, value \in ResultValues \cup Faults :
        WorkerFn(i, kind, value)
  \/ \E i \in 1..Len(delivery) : WorkerThen(i)
  \/ \E i \in 1..Len(delivery) : WorkerCatch(i)

Spec == Init /\ [][Next]_vars

(***************************************************************************)
(* Several requesters and several workers of the same task name, all       *)
(* connected: the state connect leaves each instance and the broker in.    *)
(* The requesters submit, other parties publish refused deliveries, the    *)
(* workers compete for the work queue.                                     *)
(***************************************************************************)
PoolClients == { "c1", "c2" }
PoolWorkers == { "w1", "w2" }
\* schedule calls plus deliveries published by other parties
PoolEnvelopes == 2
\* logger calls of one execution of the work function
PoolLogs == 1

PoolPayloads == { Obj(<< <<"someKey", Str("someValue")>> >>) }
PoolResults == { Obj(<< <<"someKey", Str("someValue-after-work")>> >>) }
PoolFaults == { Error(Str("error!!!")), Undefined }
PoolLoggerMethods == { "info" }
\* deliveries of an unsupported content type and of a malformed body
PoolForeign ==
  { << Str("application/not-json"), Buf("{\"someKey\":\"someValue\"}"), Str(ForeignReplyQueue) >>,
    << Str(ApplicationJSON), Buf("not good json"), Str(ForeignReplyQueue) >> }

InitPool ==
  /\ client = [c \in PoolClients |-> [pc |-> "connected", channel |-> TRUE]]
  /\ \E o \in PrefetchOptions :
       worker = [w \in PoolWorkers |->
                  [pc |-> "consuming", channel |-> TRUE, option |-> o,
                   prefetch |-> PrefetchOf(o), limit |-> PrefetchOf(o)]]
  /\ broker = [declared |-> { WorkerQueueName, ClientWorkerQueueName }
                              \cup { UpdatesQueueName(c) : c \in PoolClients },
               exchanges |-> { WorkerExchangeName, ClientWorkerExchangeName },
               bindings |-> { <<WorkerQueueName, WorkerExchangeName, WorkerQueueName>>,
                              <<ClientWorkerQueueName, ClientWorkerExchangeName,
                                ClientWorkerQueueName>> }]
  /\ queue = [q \in { WorkerQueueName, ClientWorkerQueueName, ForeignReplyQueue }
                      \cup { UpdatesQueueName(c) : c \in PoolClients } |-> <<>>]
  /\ delivery = <<>>
  /\ submits = <<>>
  /\ events = [c \in PoolClients |-> <<>>]
  /\ foreign = 0
  /\ inbound = [c \in PoolClients |-> <<>>]
  /\ direct = <<>>

\* The channel of an idle worker closes (the process stops, the connection is
\* lost) while the broker still holds deliveries the worker never acked or
\* nacked: the worker emits channel-close and receives nothing more, and the
\* broker puts those deliveries back on the work queue.
WorkerClose(w) ==
  /\ worker[w].pc = "consuming"
  /\ \A i \in 1..Len(delivery) : delivery[i].worker = w => Finished(delivery[i])
  /\ worker' = [worker EXCEPT ![w].pc = "closed"]
  /\ LET held == SelectSeq(delivery, LAMBDA d : d.worker = w /\ ~Settled(d))
     IN /\ held # <<>>
        /\ queue' = [queue EXCEPT ![WorkerQueueName] =
                       [k \in 1..Len(held) |-> held[k].message] \o @]
  /\ UNCHANGED << client, broker, delivery, submits, events, foreign, inbound, direct >>

\* deliveries are handed over until PoolEnvelopes have been
PoolReceive(w) ==
  /\ Len(delivery) < PoolEnvelopes
  /\ WorkerReceive(w)

PoolSchedule(c, data) ==
  /\ Len(submits) + foreign < PoolEnvelopes
  /\ Scheduling(c, data)

PoolForeignPublish(shape) ==
  /\ Len(submits) + foreign < PoolEnvelopes
  /\ ForeignPublishing(shape[1], shape[2], shape[3])

PoolLog(i, method, arguments) ==
  /\ Len(delivery[i].logs) < PoolLogs
  /\ Logging(i, method, arguments, FALSE)

NextPool ==
  \/ \E c \in PoolClients, data \in PoolPayloads : PoolSchedule(c, data)
  \/ \E c \in PoolClients : ClientReceive(c)
  \/ \E shape \in PoolForeign : PoolForeignPublish(shape)
  \/ \E w \in PoolWorkers : PoolReceive(w)
  \/ \E w \in PoolWorkers : WorkerClose(w)
  \/ \E i \in 1..Len(delivery), method \in PoolLoggerMethods, arguments \in LogArguments :
        PoolLog(i, method, arguments)
  \/ \E i \in 1..Len(delivery), value \in PoolResults : WorkerFn(i, "return", value)
  \/ \E i \in 1..Len(delivery), value \in PoolFaults : WorkerFn(i, "throw", value)
  \/ \E i \in 1..Len(delivery) : WorkerThen(i)
  \/ \E i \in 1..Len(delivery) : WorkerCatch(i)

SpecPool == InitPool /\ [][NextPool]_vars

(***************************************************************************)
(* The workers of the pool with work functions of every kind: ones that    *)
(* return or throw, and ones that return a promise.                        *)
(***************************************************************************)
NextOutcomes ==
  \/ \E c \in PoolClients, data \in PoolPayloads : PoolSchedule(c, data)
  \/ \E w \in PoolWorkers : PoolReceive(w)
  \/ \E i \in 1..Len(delivery), method \in PoolLoggerMethods, arguments \in LogArguments :
        PoolLog(i, method, arguments)
  \/ \E i \in 1..Len(delivery), kind \in OutcomeKinds, value \in ResultValues \cup Faults :
        WorkerFn(i, kind, value)
  \/ \E i \in 1..Len(delivery) : WorkerThen(i)
  \/ \E i \in 1..Len(delivery) : WorkerCatch(i)

SpecOutcomes == InitPool /\ [][NextOutcomes]_vars

(***************************************************************************)
(* The workers of the pool with work functions that keep the logger they   *)
(* were handed and call it after the delivery has been answered.           *)
(***************************************************************************)
\* logger[method](arguments) called once handleMessage's promise has settled
LogLater(i, method, arguments) ==
  /\ delivery[i].invoked
  /\ delivery[i].pc = "done"
  /\ Len(delivery[i].logs) < PoolLogs
  /\ LET d == delivery[i]
         out == LoggerCall(d.worker, d.message, method, arguments)
     IN /\ delivery' = [delivery EXCEPT ![i] =
                          [d EXCEPT !.logs = Append(@, [method |-> method,
                                                        arguments |-> arguments,
                                                        threw |-> out.threw]),
                                    !.calls = @ \o out.calls]]
        /\ queue' = Routed(out.calls)
  /\ UNCHANGED << client, worker, broker, submits, events, foreign, inbound, direct >>

NextLater ==
  \/ \E c \in PoolClients, data \in PoolPayloads : PoolSchedule(c, data)
  \/ \E c \in PoolClients : ClientReceive(c)
  \/ \E w \in PoolWorkers : PoolReceive(w)
  \/ \E i \in 1..Len(delivery), method \in PoolLoggerMethods, arguments \in LogArguments :
        PoolLog(i, method, arguments)
  \/ \E i \in 1..Len(delivery), method \in PoolLoggerMethods, arguments \in LogArguments :
        LogLater(i, method, arguments)
  \/ \E i \in 1..Len(delivery), value \in PoolResults : WorkerFn(i, "return", value)
  \/ \E i \in 1..Len(delivery), value \in PoolFaults : WorkerFn(i, "throw", value)
  \/ \E i \in 1..Len(delivery) : WorkerThen(i)
  \/ \E i \in 1..Len(delivery) : WorkerCatch(i)

SpecLater == InitPool /\ [][NextLater]_vars

(***************************************************************************)
(* The reply queue of a connected requester.  Whatever party publishes to  *)
(* the queue, the broker hands the deliveries to handleUpdateMessage one   *)
(* by one; a null delivery is what the consumer gets when it is cancelled. *)
(***************************************************************************)
\* deliveries on the reply queue
MaxUpdates == 2
\* schedule calls of the requester
MaxSubmits == 1

UpdateCorrelationIds == { Undefined, Str(""), Str("request-1") }
UpdateKinds == { Str(k) : k \in UpdateTypes } \cup { Str("work-progress"), Undefined }
\* content type and content: a JSON body, a malformed one, a text
UpdateBodies ==
  { << Str(ApplicationJSON), Buf("{\"someKey\":\"someValue\"}") >>,
    << Str(ApplicationJSON), Buf("not good json") >>,
    << Str(TextPlain), Buf("text contents") >> }
UpdateMessages ==
  { Null, Message(Undefined, Buf("text contents")) }
    \cup { Message(Properties(body[1], Undefined, Undefined, correlationId, kind, Str("w1")),
                   body[2])
             : body \in UpdateBodies, correlationId \in UpdateCorrelationIds,
               kind \in UpdateKinds }

InitUpdates ==
  /\ client = [c \in Clients |-> [pc |-> "connected", channel |-> TRUE]]
  /\ worker = [w \in Workers |->
                [pc |-> "constructed", channel |-> FALSE, option |-> 0,
                 prefetch |-> PrefetchOf(0), limit |-> 0]]
  /\ broker = [declared |-> { ClientWorkerQueueName }
                              \cup { UpdatesQueueName(c) : c \in Clients },
               exchanges |-> { ClientWorkerExchangeName },
               bindings |-> { <<ClientWorkerQueueName, ClientWorkerExchangeName,
                                ClientWorkerQueueName>> }]
  /\ queue = [q \in QueueNames |-> <<>>]
  /\ delivery = <<>>
  /\ submits = <<>>
  /\ events = [c \in Clients |-> <<>>]
  /\ foreign = 0
  /\ inbound = [c \in Clients |-> <<>>]
  /\ direct = <<>>

\* a delivery arrives on the reply queue of requester c
UpdateArrives(c, message) ==
  /\ Len(queue[UpdatesQueueName(c)]) + Len(inbound[c]) < MaxUpdates
  /\ queue' = [queue EXCEPT ![UpdatesQueueName(c)] = Append(@, message)]
  /\ UNCHANGED << client, worker, broker, delivery, submits, events, foreign, inbound, direct >>

\* the requester submits a request of its own
UpdatesSchedule(c, data) ==
  /\ Len(submits) < MaxSubmits
  /\ Scheduling(c, data)

NextUpdates ==
  \/ \E c \in Clients, message \in UpdateMessages : UpdateArrives(c, message)
  \/ \E c \in Clients, data \in PoolPayloads : UpdatesSchedule(c, data)
  \/ \E c \in Clients : ClientReceive(c)

SpecUpdates == InitUpdates /\ [][NextUpdates]_vars

(***************************************************************************)
(* The methods of a connected worker called on their own, as the tests of  *)
(* src/unnamed/part_007 do, next to a connected requester that consumes    *)
(* its reply queue.                                                        *)
(***************************************************************************)
\* calls made on the worker
MaxCalls == 2

\* the deliveries handed to handleMessage when it is called on its own:
\* none, and two that it refuses before the work function
CallDeliveries ==
  { Undefined, Null,
    Message(Properties(Str("application/not-json"), Str("test-task-updates-c1"),
                       Str("request-1"), Undefined, Str("work-request"), Str("c1")),
            Buf("{\"someKey\":\"someValue\"}")),
    Message(Properties(Str(ApplicationJSON), Str("test-task-updates-c1"),
                       Str("request-1"), Undefined, Str("work-request"), Str("c1")),
            Buf("not good json")) }

\* the source messages: absent, without properties, without replyTo, with an
\* empty replyTo, and the delivery of a request of requester c1
CallSources ==
  { Undefined, Null,
    Message(Undefined, Undefined),
    Message(Properties(Undefined, Undefined, Undefined, Undefined, Undefined, Undefined),
            Undefined),
    Message(Properties(Str(ApplicationJSON), Str(""), Str("request-1"), Undefined,
                       Str("work-request"), Str("c1")),
            Buf("{\"someKey\":\"someValue\"}")),
    Message(Properties(Str(ApplicationJSON), Str(UpdatesQueueName("c1")), Str("request-1"),
                       Undefined, Str("work-request"), Str("c1")),
            Buf("{\"someKey\":\"someValue\"}")) }

InitCalls ==
  /\ client = [c \in Clients |-> [pc |-> "connected", channel |-> TRUE]]
  /\ worker = [w \in Workers |->
                [pc |-> "consuming", channel |-> TRUE, option |-> 0,
                 prefetch |-> PrefetchOf(0), limit |-> PrefetchOf(0)]]
  /\ broker = [declared |-> { WorkerQueueName, ClientWorkerQueueName }
                              \cup { UpdatesQueueName(c) : c \in Clients },
               exchanges |-> { WorkerExchangeName, ClientWorkerExchangeName },
               bindings |-> { <<WorkerQueueName, WorkerExchangeName, WorkerQueueName>>,
                              <<ClientWorkerQueueName, ClientWorkerExchangeName,
                                ClientWorkerQueueName>> }]
  /\ queue = [q \in QueueNames |-> <<>>]
  /\ delivery = <<>>
  /\ submits = <<>>
  /\ events = [c \in Clients |-> <<>>]
  /\ foreign = 0
  /\ inbound = [c \in Clients |-> <<>>]
  /\ direct = <<>>

\* worker.publishUpdate(sourceMessage, data, {type: type})
CallPublishUpdate(w, sourceMessage, data, type) ==
  /\ Len(direct) < MaxCalls
  /\ worker[w].channel
  /\ LET out == PublishUpdate(w, sourceMessage, data, type)
     IN /\ direct' = Append(direct,
                       [op |-> "publishUpdate", worker |-> w,
                        sourceMessage |-> sourceMessage, data |-> data,
                        threw |-> out.threw, err |-> out.err, calls |-> out.calls])
        /\ queue' = Routed(out.calls)
  /\ UNCHANGED << client, worker, broker, delivery, submits, events, foreign, inbound >>

\* new HWorkerClient(options)
ConstructClient(options) ==
  /\ Len(direct) < MaxCalls
  /\ LET out == HWorkerClient(options)
     IN direct' = Append(direct,
                    [op |-> "new HWorkerClient", options |-> options,
                     workerFn |-> Undefined,
                     threw |-> out.threw, err |-> out.err, instance |-> out.instance])
  /\ UNCHANGED << client, worker, broker, queue, delivery, submits, events, foreign,
                  inbound >>

\* new HWorkerServer(options, workerFn)
ConstructServer(options, workerFn) ==
  /\ Len(direct) < MaxCalls
  /\ LET out == HWorkerServer(options, workerFn)
     IN direct' = Append(direct,
                    [op |-> "new HWorkerServer", options |-> options,
                     workerFn |-> workerFn,
                     threw |-> out.threw, err |-> out.err, instance |-> out.instance])
  /\ UNCHANGED << client, worker, broker, queue, delivery, submits, events, foreign,
                  inbound >>

\* worker.respondError(sourceMessage, err)
CallRespondError(w, sourceMessage, err) ==
  /\ Len(direct) < MaxCalls
  /\ worker[w].channel
  /\ LET out == RespondError(w, sourceMessage, err)
     IN /\ direct' = Append(direct,
                       [op |-> "respondError", worker |-> w,
                        sourceMessage |-> sourceMessage, fault |-> err,
                        threw |-> out.threw, err |-> out.err, calls |-> out.calls])
        /\ queue' = Routed(out.calls)
  /\ UNCHANGED << client, worker, broker, delivery, submits, events, foreign, inbound >>

\* worker.handleMessage(message) for a delivery that ends before the work
\* function
CallHandleMessage(w, message) ==
  /\ Len(direct) < MaxCalls
  /\ worker[w].channel
  /\ LET entry == HandleMessageEntry(w, message)
     IN /\ entry.step # "invoke"
        /\ direct' = Append(direct,
                       [op |-> "handleMessage", worker |-> w, message |-> message,
                        invoked |-> entry.step = "invoke",
                        threw |-> entry.out.threw, err |-> entry.out.err,
                        calls |-> entry.out.calls])
        /\ queue' = Routed(entry.out.calls)
  /\ UNCHANGED << client, worker, broker, delivery, submits, events, foreign, inbound >>

NextCalls ==
  \/ \E w \in Workers, message \in CallDeliveries : CallHandleMessage(w, message)
  \/ \E w \in Workers, sourceMessage \in CallSources, err \in CallFaults :
        CallRespondError(w, sourceMessage, err)
  \/ \E options \in ConstructorOptions : ConstructClient(options)
  \/ \E options \in ConstructorOptions, workerFn \in WorkerFns :
        ConstructServer(options, workerFn)
  \/ \E w \in Workers, sourceMessage \in CallSources, data \in CallData,
         type \in UpdateTypes :
        CallPublishUpdate(w, sourceMessage, data, type)
  \/ \E c \in Clients : ClientReceive(c)

SpecCalls == InitCalls /\ [][NextCalls]_vars

(***************************************************************************)
(* Several requesters and workers of one task name connect, in any order   *)
(* and more than once.  A second connect on an instance opens a second     *)
(* channel and asserts the same topology; on a requester its consume is    *)
(* refused by the broker, the reply queue having an exclusive consumer.    *)
(***************************************************************************)
\* connect calls beyond the first call with a connection of each instance
MaxConnects == 2

\* what connect is called with when it is given no connection
NoConnections == { Undefined, Str("") }
Connection == [t |-> "connection"]

SetupQueueNames ==
  { WorkerQueueName, ClientWorkerQueueName } \cup { UpdatesQueueName(c) : c \in PoolClients }

InitSetup ==
  /\ client = [c \in PoolClients |-> [pc |-> "constructed", channel |-> FALSE]]
  /\ worker = [w \in PoolWorkers |->
                [pc |-> "constructed", channel |-> FALSE, option |-> 0,
                 prefetch |-> PrefetchOf(0), limit |-> 0]]
  /\ broker = [declared |-> {}, exchanges |-> {}, bindings |-> {}]
  /\ queue = [q \in SetupQueueNames |-> <<>>]
  /\ delivery = <<>>
  /\ submits = <<>>
  /\ events = [c \in PoolClients |-> <<>>]
  /\ foreign = 0
  /\ inbound = [c \in PoolClients |-> <<>>]
  /\ direct = <<>>

ConnectedAgain(i) ==
  \E k \in 1..Len(direct) :
    direct[k].op = "connect" /\ direct[k].instance = i /\ ~direct[k].threw

\* connect is called on instance i with no connection: the promise is rejected
ConnectWithout(i, connectionOrURI) ==
  /\ Len(direct) < MaxConnects
  /\ LET out == ConnectEntry(connectionOrURI)
     IN /\ out.threw
        /\ direct' = Append(direct,
                       [op |-> "connect", instance |-> i,
                        connectionOrURI |-> connectionOrURI,
                        threw |-> out.threw, err |-> out.err])
  /\ UNCHANGED << client, worker, broker, queue, delivery, submits, events, foreign,
                  inbound >>

\* connect is called with a connection on a requester that is connected
ClientConnectAgain(c) ==
  /\ Len(direct) < MaxConnects
  /\ client[c].pc = "connected"
  /\ ~ConnectEntry(Connection).threw
  /\ client' = [client EXCEPT ![c].pc = "creatingChannel"]
  /\ direct' = Append(direct,
                  [op |-> "connect", instance |-> c, connectionOrURI |-> Connection,
                   threw |-> FALSE, err |-> Undefined])
  /\ UNCHANGED << worker, broker, queue, delivery, submits, events, foreign, inbound >>

\* connect is called with a connection on a worker that is consuming
WorkerConnectAgain(w) ==
  /\ Len(direct) < MaxConnects
  /\ worker[w].pc = "consuming"
  /\ ~ConnectEntry(Connection).threw
  /\ worker' = [worker EXCEPT ![w].pc = "creatingChannel"]
  /\ direct' = Append(direct,
                  [op |-> "connect", instance |-> w, connectionOrURI |-> Connection,
                   threw |-> FALSE, err |-> Undefined])
  /\ UNCHANGED << client, broker, queue, delivery, submits, events, foreign, inbound >>

\* consume is answered for the first channel of the requester
SetupConnected(c) ==
  /\ ~ConnectedAgain(c)
  /\ ClientConnected(c)

\* consume on the second channel is refused: the connect promise is rejected
SetupRefused(c) ==
  /\ ConnectedAgain(c)
  /\ client[c].pc = "consuming"
  /\ client' = [client EXCEPT ![c].pc = "refused"]
  /\ UNCHANGED << worker, broker, queue, delivery, submits, events, foreign, inbound,
                  direct >>

NextSetup ==
  \/ \E c \in PoolClients : ClientConnect(c)
  \/ \E c \in PoolClients : ClientAssert(c)
  \/ \E c \in PoolClients : ClientConsume(c)
  \/ \E c \in PoolClients : SetupConnected(c)
  \/ \E c \in PoolClients : SetupRefused(c)
  \/ \E c \in PoolClients : ClientConnectAgain(c)
  \/ \E w \in PoolWorkers : WorkerConnect(w)
  \/ \E w \in PoolWorkers : WorkerPrefetch(w)
  \/ \E w \in PoolWorkers : WorkerAssert(w)
  \/ \E w \in PoolWorkers : WorkerConsume(w)
  \/ \E w \in PoolWorkers : WorkerConnectAgain(w)
  \/ \E i \in PoolClients \cup PoolWorkers, connectionOrURI \in NoConnections :
        ConnectWithout(i, connectionOrURI)

SpecSetup == InitSetup /\ [][NextSetup]_vars

(***************************************************************************)
(* What a delivery's record says.                                          *)
(***************************************************************************)
Acks(d) == { k \in 1..Len(d.calls) : d.calls[k].op = "ack" }
Nacks(d) == { k \in 1..Len(d.calls) : d.calls[k].op = "nack" }
PublishesOf(d, types) ==
  { k \in 1..Len(d.calls) :
      d.calls[k].op = "publish" /\ d.calls[k].options.type \in { Str(ty) : ty \in types } }
Terminals(d) == PublishesOf(d, {"result:success", "result:error"})

\* the description carried by a published result:error
DescriptionOf(call) == JSONParse(call.content.v).value

HasReplyTo(d) == Truthy(d.message.properties.replyTo)
IsJSONDelivery(d) == d.message.properties.contentType = Str(ApplicationJSON)
Fulfilled(d) == d.outcome.kind \in {"return", "resolve"}
Faulted(d) == d.outcome.kind \in {"throw", "reject"}

\* the deliveries of the Work Envelope a schedule call published
DeliveriesOf(s) ==
  { i \in 1..Len(delivery) :
      ~s.threw /\ delivery[i].message.properties.messageId = s.requestId }

\* received is what the requester decodes from an update carrying sent: the
\* JSON value itself, or the bytes of the text of a string or a number
Represents(received, sent) ==
  \/ received = JSONNormal(sent)
  \/ received.t = "buffer" /\ sent.t \in {"string", "number"} /\ received.v = sent.v

LogNames == { "log:info", "log:warning", "log:error" }
TerminalNames == { "result:success", "result:error" }

\* the kind of log event each logger method stands for
LogKindOf(method) ==
  IF method \in {"log", "info"} THEN "log:info"
  ELSE IF method = "warn" THEN "log:warning"
  ELSE "log:error"

\* the log events the logger calls of a delivery stand for, in call order
ExpectedLogs(d) ==
  [ k \in 1..Len(d.logs) |->
      [ name |-> LogKindOf(d.logs[k].method),
        payload |-> JSONNormal(Arr(d.logs[k].arguments)) ] ]
NameAndPayload(evs) ==
  [ k \in 1..Len(evs) |-> [ name |-> evs[k].name, payload |-> evs[k].payload ] ]

\* the events a requester emitted for a request, in order, and those of given names
EventsOf(c, requestId) == SelectSeq(events[c], LAMBDA e : e.requestId = requestId)
Named(evs, names) == SelectSeq(evs, LAMBDA e : e.name \in names)

\* the requester has consumed every update published so far
Drained(c) == client[c].pc = "connected" /\ queue[UpdatesQueueName(c)] = <<>>

(***************************************************************************)
(* C1: the channel receives at most one settlement (ack or nack) for a     *)
(* delivery, whatever the work function returns, resolves with, rejects    *)
(* with or throws.                                                         *)
(***************************************************************************)
C1_AtMostOneSettlement ==
  \A i \in 1..Len(delivery) :
    Cardinality(Acks(delivery[i])) + Cardinality(Nacks(delivery[i])) <= 1

(***************************************************************************)
(* C2: every non-empty delivery is acked or nacked once its handling has   *)
(* ended, on every path and for every shape of its properties.             *)
(***************************************************************************)
C2_HandledIsSettled ==
  \A i \in 1..Len(delivery) : Finished(delivery[i]) => Settled(delivery[i])

(***************************************************************************)
(* C3: exactly one terminal Update Envelope (result:success or             *)
(* result:error) is published for a handled delivery: never two, and one   *)
(* once its handling has ended.  Stated for the deliveries that name a     *)
(* reply queue.                                                            *)
(***************************************************************************)
C3_ExactlyOneTerminal ==
  \A i \in 1..Len(delivery) :
    HasReplyTo(delivery[i]) =>
      /\ Cardinality(Terminals(delivery[i])) <= 1
      /\ Finished(delivery[i]) => Cardinality(Terminals(delivery[i])) = 1

(***************************************************************************)
(* C4: the terminal Update Envelope is published before the delivery is    *)
(* acked or nacked, and the ack or nack is the last call the worker makes  *)
(* on the channel for the delivery.                                        *)
(***************************************************************************)
C4_SettlementIsLast ==
  \A i \in 1..Len(delivery) :
    \A k \in Acks(delivery[i]) \cup Nacks(delivery[i]) :
      /\ k = Len(delivery[i].calls)
      /\ \A j \in Terminals(delivery[i]) : j < k

(***************************************************************************)
(* C5: a request whose work function fulfils produces, at the requester    *)
(* that submitted it, exactly one result:success event carrying the id     *)
(* schedule returned and the value the work function fulfilled with, and   *)
(* no result:error event for that id.                                      *)
(***************************************************************************)
C5_FulfilledYieldsOneSuccess ==
  \A n \in 1..Len(submits) : \A i \in DeliveriesOf(submits[n]) :
    LET s == submits[n]
        d == delivery[i]
        evs == EventsOf(s.client, s.requestId)
        successes == Named(evs, {"result:success"})
    IN  (Fulfilled(d) /\ Finished(d) /\ Drained(s.client)) =>
          /\ Len(successes) = 1
          /\ Represents(successes[1].payload, d.outcome.value)
          /\ Named(evs, {"result:error"}) = <<>>

(***************************************************************************)
(* C6: when the work function of a submitted request throws or rejects     *)
(* with an error whose message is m, the worker publishes one result:error *)
(* whose description carries message m and no result:success, then nacks   *)
(* with allUpTo = false and requeue = false; the requester emits one       *)
(* result:error event and no result:success event for the request id.      *)
(***************************************************************************)
C6_FaultYieldsOneError ==
  \A n \in 1..Len(submits) : \A i \in DeliveriesOf(submits[n]) :
    LET s == submits[n]
        d == delivery[i]
        evs == EventsOf(s.client, s.requestId)
        errors == Named(evs, {"result:error"})
    IN  (Faulted(d) /\ d.outcome.value.t = "error") =>
          /\ PublishesOf(d, {"result:success"}) = {}
          /\ Named(evs, {"result:success"}) = <<>>
          /\ Len(errors) <= 1
          /\ Finished(d) =>
               /\ d.pc = "done"
               /\ Cardinality(PublishesOf(d, {"result:error"})) = 1
               /\ \A k \in PublishesOf(d, {"result:error"}) :
                    /\ Member(DescriptionOf(d.calls[k]), "message") = d.outcome.value.message
                    /\ d.calls[k].options.correlationId = s.requestId
                    /\ k < Len(d.calls)
               /\ d.calls[Len(d.calls)] = NackCall(d.message, FALSE, FALSE)
               /\ Acks(d) = {} /\ Cardinality(Nacks(d)) = 1
          /\ (Finished(d) /\ Drained(s.client)) =>
               /\ Len(errors) = 1
               /\ Member(errors[1].payload, "message") = d.outcome.value.message

C6_Witness ==
  \E n \in 1..Len(submits) : \E i \in DeliveriesOf(submits[n]) :
    /\ delivery[i].outcome.value = Error(Str("error!!!"))
    /\ Finished(delivery[i])
    /\ Drained(submits[n].client)
    /\ Len(Named(EventsOf(submits[n].client, submits[n].requestId), {"result:error"})) = 1

(***************************************************************************)
(* C7: a delivery whose contentType is not application/json results in a   *)
(* result:error naming UnsupportedContentType followed by a nack with      *)
(* allUpTo = false and requeue = false; the work function is not invoked   *)
(* and no result:success is published.                                     *)
(***************************************************************************)
C7_UnsupportedContentTypeRefused ==
  \A i \in 1..Len(delivery) :
    LET d == delivery[i] IN
    ~IsJSONDelivery(d) =>
      /\ ~d.invoked
      /\ Len(d.calls) = 2
      /\ d.calls[1].op = "publish"
      /\ d.calls[1].options.type = Str("result:error")
      /\ Member(DescriptionOf(d.calls[1]), "name") = Str("UnsupportedContentType")
      /\ d.calls[2] = NackCall(d.message, FALSE, FALSE)

(***************************************************************************)
(* C8: a delivery of contentType application/json whose body is not valid  *)
(* JSON (or that has no body) results in a result:error naming             *)
(* MalformedMessage followed by a nack with allUpTo = false and requeue =  *)
(* false; the work function is not invoked.                                *)
(***************************************************************************)
C8_MalformedMessageRefused ==
  \A i \in 1..Len(delivery) :
    LET d == delivery[i] IN
    (IsJSONDelivery(d) /\ ParseContent(d.message).threw) =>
      /\ ~d.invoked
      /\ Len(d.calls) = 2
      /\ d.calls[1].op = "publish"
      /\ d.calls[1].options.type = Str("result:error")
      /\ Member(DescriptionOf(d.calls[1]), "name") = Str("MalformedMessage")
      /\ d.calls[2] = NackCall(d.message, FALSE, FALSE)

(***************************************************************************)
(* C9: every logger call the work function of a submitted request makes    *)
(* reaches the requester as one log:* event of the matching kind for the   *)
(* request id (log and info as log:info, warn as log:warning, error as     *)
(* log:error), before the terminal event; when the terminal event is       *)
(* observed the log events are exactly the logger calls.                   *)
(***************************************************************************)
C9_LogsMatchLoggerCalls ==
  \A n \in 1..Len(submits) : \A i \in DeliveriesOf(submits[n]) :
    LET s == submits[n]
        d == delivery[i]
        evs == EventsOf(s.client, s.requestId)
        observed == NameAndPayload(Named(evs, LogNames))
        expected == ExpectedLogs(d)
    IN  /\ Len(observed) <= Len(expected)
        /\ observed = SubSeq(expected, 1, Len(observed))
        /\ \A k \in 1..Len(evs) :
             evs[k].name \in TerminalNames =>
               /\ k = Len(evs)
               /\ observed = expected
               /\ \A kind \in LogNames :
                    Len(Named(evs, {kind}))
                      = Cardinality({ j \in 1..Len(d.logs) : LogKindOf(d.logs[j].method) = kind })

C9_Witness ==
  \E n \in 1..Len(submits) : \E i \in DeliveriesOf(submits[n]) :
    LET evs == EventsOf(submits[n].client, submits[n].requestId) IN
    /\ Len(delivery[i].logs) = 2
    /\ delivery[i].logs[1].method = "warn"
    /\ delivery[i].logs[2].method = "error"
    /\ Len(evs) = 3
    /\ evs[1].name = "log:warning"
    /\ evs[2].name = "log:error"
    /\ evs[3].name \in TerminalNames

(***************************************************************************)
(* C10: a schedule call made before the reply-queue consumer is            *)
(* established (before connect is called, or while connect is still in     *)
(* progress) fails with NotConnected and publishes nothing.                *)
(***************************************************************************)
C10_SubmitBeforeConsumerFails ==
  \A n \in 1..Len(submits) :
    submits[n].pc # "connected" =>
      /\ submits[n].threw
      /\ submits[n].err = NotConnected(Str("not connected"))
      /\ submits[n].calls = <<>>

(***************************************************************************)
(* C10, as the code has it: a schedule call made before connect has stored *)
(* the channel on the instance (before connect is called, while the        *)
(* channel is being created or while the topology is being asserted) fails *)
(* with NotConnected and publishes nothing; from the moment the channel is *)
(* stored, which is when consume is issued and before it is answered, a    *)
(* schedule call publishes one Work Envelope.                              *)
(***************************************************************************)
C10_SubmitBeforeChannelFails ==
  \A n \in 1..Len(submits) :
    LET s == submits[n] IN
    /\ s.pc \in {"constructed", "creatingChannel", "asserting"} =>
         /\ s.threw
         /\ s.err = NotConnected(Str("not connected"))
         /\ s.calls = <<>>
    /\ s.pc \in {"consuming", "connected"} =>
         /\ ~s.threw
         /\ Len(s.calls) = 1
         /\ s.calls[1].op = "publish"

C10_Witness ==
  \E n \in 1..Len(submits) :
    /\ submits[n].pc = "asserting"
    /\ submits[n].threw
    /\ submits[n].err.name = "NotConnected"

(***************************************************************************)
(* C11: every Update Envelope a worker publishes for a delivery carries    *)
(* the delivery's messageId as its correlationId; the Work Envelope a      *)
(* schedule call publishes carries the id the call returns as its          *)
(* messageId; so every event a requester emits carries the id returned by  *)
(* a schedule call, and stands for an update published for a delivery of   *)
(* that call's Work Envelope.                                              *)
(***************************************************************************)
C11_EventsCarrySubmitId ==
  /\ \A i \in 1..Len(delivery) :
       \A k \in PublishesOf(delivery[i], UpdateTypes) :
         delivery[i].calls[k].options.correlationId
           = delivery[i].message.properties.messageId
  /\ \A n \in 1..Len(submits) :
       ~submits[n].threw =>
         /\ Len(submits[n].calls) = 1
         /\ submits[n].calls[1].options.messageId = submits[n].requestId
         /\ \A m \in 1..Len(submits) :
              submits[m].requestId = submits[n].requestId => m = n
  /\ \A c \in DOMAIN events : \A k \in 1..Len(events[c]) :
       \E n \in 1..Len(submits) : \E i \in DeliveriesOf(submits[n]) :
         /\ submits[n].requestId = events[c][k].requestId
         /\ PublishesOf(delivery[i], {events[c][k].name}) # {}

C11_Witness ==
  \E c \in DOMAIN events : \E n \in 1..Len(submits) :
    LET evs == EventsOf(c, submits[n].requestId) IN
    /\ ~submits[n].threw
    /\ Len(evs) = 2
    /\ evs[1].name = "log:info"
    /\ evs[2].name = "result:success"

(***************************************************************************)
(* C12: with several requesters of one task name and distinct identities,  *)
(* a requester never emits an event, and its reply queue never holds or    *)
(* hands over an update, for an id returned by another requester's         *)
(* schedule call.                                                          *)
(***************************************************************************)
C12_NoCrossDelivery ==
  \A c \in DOMAIN events : \A n \in 1..Len(submits) :
    (~submits[n].threw /\ submits[n].client # c) =>
      /\ \A k \in 1..Len(events[c]) : events[c][k].requestId # submits[n].requestId
      /\ \A k \in 1..Len(inbound[c]) :
           inbound[c][k].message.properties.correlationId # submits[n].requestId
      /\ \A k \in 1..Len(queue[UpdatesQueueName(c)]) :
           queue[UpdatesQueueName(c)][k].properties.correlationId # submits[n].requestId

C12_Witness ==
  \E n1, n2 \in 1..Len(submits) :
    /\ submits[n1].client = "c1" /\ submits[n2].client = "c2"
    /\ Len(EventsOf("c1", submits[n1].requestId)) >= 1
    /\ Len(EventsOf("c2", submits[n2].requestId)) >= 1
    /\ Len(events["c1"]) + Len(events["c2"])
         = Len(EventsOf("c1", submits[n1].requestId)) + Len(EventsOf("c2", submits[n2].requestId))

(***************************************************************************)
(* C13: with several workers on one work queue, the Work Envelope of a     *)
(* schedule call is handed to a worker at most once and its work function  *)
(* runs at most once, whatever the outcome of its handling; no more        *)
(* deliveries are made than messages were published.                       *)
(***************************************************************************)
C13_AtMostOnceAcrossWorkers ==
  /\ \A n \in 1..Len(submits) :
       ~submits[n].threw =>
         /\ Cardinality(DeliveriesOf(submits[n])) <= 1
         /\ Cardinality({ i \in DeliveriesOf(submits[n]) : delivery[i].invoked }) <= 1
  /\ Len(delivery)
       <= Cardinality({ n \in 1..Len(submits) : ~submits[n].threw }) + foreign

(***************************************************************************)
(* C14: at any moment a worker holds at most N deliveries it has received  *)
(* and neither acked nor nacked, and runs at most N executions of the work *)
(* function, where N is the prefetch option it was constructed with and 1  *)
(* when no such option was given.                                          *)
(***************************************************************************)
C14_PrefetchBoundsUnacked ==
  \A w \in DOMAIN worker :
    LET N == IF worker[w].option = 0 THEN 1 ELSE worker[w].option
        executing == { i \in 1..Len(delivery) :
                         /\ delivery[i].worker = w
                         /\ delivery[i].invoked
                         /\ ~Finished(delivery[i]) }
    IN  /\ Unacked(w) <= N
        /\ Cardinality(executing) <= N

C14_Witness ==
  \E w \in DOMAIN worker :
    /\ worker[w].option = 0
    /\ worker[w].pc = "consuming"
    /\ Unacked(w) = 1
    /\ \E i \in 1..Len(delivery) : delivery[i].worker = w /\ delivery[i].pc = "executing"
    /\ queue[WorkerQueueName] # <<>>

(***************************************************************************)
(* C15: no failure holds a prefetch slot for good.  A consuming worker     *)
(* whose deliveries have all been handled to the end (handleMessage        *)
(* returned or threw, the promise of the work function settled) has a free *)
(* prefetch slot for the envelope that waits in the work queue.            *)
(***************************************************************************)
C15_IdleWorkerKeepsServing ==
  \A w \in DOMAIN worker :
    ( /\ worker[w].pc = "consuming"
      /\ \A i \in 1..Len(delivery) : delivery[i].worker = w => Finished(delivery[i])
      /\ queue[WorkerQueueName] # <<>> )
    => (worker[w].limit = 0 \/ Unacked(w) < worker[w].limit)

(***************************************************************************)
(* C16: the Work Envelope of every schedule call that did not throw is     *)
(* published to the exchange the workers of the same task name assert,     *)
(* with the name of their queue as routing key; that queue is bound to     *)
(* that exchange with that key, both sides derive name for the queue and   *)
(* name + "-exchange" for the exchange, and the envelope is in the work    *)
(* queue or has been delivered to a worker.                                *)
(***************************************************************************)
C16_SubmitReachesWorkQueue ==
  /\ ClientWorkerQueueName = TaskName /\ WorkerQueueName = TaskName
  /\ ClientWorkerExchangeName = TaskName \o "-exchange"
  /\ WorkerExchangeName = TaskName \o "-exchange"
  /\ \A n \in 1..Len(submits) :
       ~submits[n].threw =>
         LET call == submits[n].calls[1]
             queued == { k \in 1..Len(queue[WorkerQueueName]) :
                           queue[WorkerQueueName][k].properties.messageId
                             = submits[n].requestId }
             delivered == { i \in 1..Len(delivery) :
                              delivery[i].message.properties.messageId
                                = submits[n].requestId }
         IN  /\ Len(submits[n].calls) = 1
             /\ call.op = "publish"
             /\ call.exchange = Str(WorkerExchangeName)
             /\ call.routingKey = Str(WorkerQueueName)
             /\ <<WorkerQueueName, WorkerExchangeName, WorkerQueueName>> \in broker.bindings
             /\ Cardinality(queued) + Cardinality(delivered) = 1

C16_Witness ==
  \E n \in 1..Len(submits) :
    /\ ~submits[n].threw
    /\ submits[n].pc = "connected"
    /\ \E i \in 1..Len(delivery) :
         /\ delivery[i].worker \in Workers
         /\ delivery[i].message.properties.messageId = submits[n].requestId
         /\ delivery[i].message.properties.type = Str("work-request")
         /\ delivery[i].invoked

(***************************************************************************)
(* What the record of a reply-queue delivery says.                         *)
(***************************************************************************)
\* the delivery is empty, has no properties or has no correlationId
Unattributed(message) ==
  \/ message = Null
  \/ message.properties = Undefined
  \/ message.properties.correlationId = Undefined

KnownKind(message) ==
  \E k \in UpdateTypes : message.properties.type = Str(k)

\* the content can be decoded as the content type says
Decodable(message) ==
  \/ message.properties.contentType # Str(ApplicationJSON)
  \/ ~JSONParse(message.content.v).threw

Decoded(message) ==
  IF message.properties.contentType = Str(ApplicationJSON)
  THEN JSONParse(message.content.v).value
  ELSE message.content

\* the events emitted for the first k deliveries of requester c
RECURSIVE EmittedUpTo(_, _)
EmittedUpTo(c, k) ==
  IF k = 0 THEN <<>> ELSE EmittedUpTo(c, k - 1) \o inbound[c][k].emitted

(***************************************************************************)
(* C17: a reply-queue delivery that is empty, has no properties or has no  *)
(* correlationId makes the requester emit no event, whatever its type and  *)
(* content: handleUpdateMessage returns, nothing is added to the events.   *)
(***************************************************************************)
C17_UnattributedIsDropped ==
  \A c \in DOMAIN inbound :
    /\ events[c] = EmittedUpTo(c, Len(inbound[c]))
    /\ \A k \in 1..Len(inbound[c]) :
         Unattributed(inbound[c][k].message) =>
           /\ inbound[c][k].emitted = <<>>
           /\ ~inbound[c][k].threw

C17_Witness ==
  \E c \in DOMAIN inbound :
    /\ Len(inbound[c]) = 2
    /\ inbound[c][1].message = Null
    /\ inbound[c][2].message # Null
    /\ inbound[c][2].message.properties # Undefined
    /\ inbound[c][2].message.properties.correlationId = Undefined
    /\ inbound[c][2].message.properties.type = Str("result:success")
    /\ inbound[c][2].message.properties.contentType = Str(ApplicationJSON)
    /\ events[c] = <<>>

(***************************************************************************)
(* C18, as stated: an Update Envelope (a delivery with a correlationId)    *)
(* whose type is none of the five known ones makes the requester emit no   *)
(* event and raise no error.                                               *)
(***************************************************************************)
C18_UnknownKindIsIgnored ==
  \A c \in DOMAIN inbound :
    \A k \in 1..Len(inbound[c]) :
      LET message == inbound[c][k].message
      IN  (~Unattributed(message) /\ ~KnownKind(message)) =>
            /\ inbound[c][k].emitted = <<>>
            /\ ~inbound[c][k].threw

(***************************************************************************)
(* C18, amended: an Update Envelope of an unknown type whose content can   *)
(* be decoded as its content type says makes the requester emit no event   *)
(* and raise no error, and the updates of a known type that arrive after   *)
(* it are emitted as usual.                                                *)
(***************************************************************************)
C18_DecodableUnknownKindIsIgnored ==
  \A c \in DOMAIN inbound :
    \A k \in 1..Len(inbound[c]) :
      LET message == inbound[c][k].message
      IN  (~Unattributed(message) /\ ~KnownKind(message) /\ Decodable(message)) =>
            /\ inbound[c][k].emitted = <<>>
            /\ ~inbound[c][k].threw
            /\ \A j \in (k + 1)..Len(inbound[c]) :
                 LET later == inbound[c][j].message
                 IN  ( /\ ~Unattributed(later)
                       /\ Truthy(later.properties.correlationId)
                       /\ KnownKind(later)
                       /\ Decodable(later) )
                     => /\ Len(inbound[c][j].emitted) = 1
                        /\ \E e \in 1..Len(events[c]) :
                             events[c][e] = inbound[c][j].emitted[1]

C18_Witness ==
  \E c \in DOMAIN inbound :
    /\ Len(inbound[c]) = 2
    /\ inbound[c][1].message # Null
    /\ inbound[c][1].message.properties # Undefined
    /\ inbound[c][1].message.properties.correlationId = Str("request-1")
    /\ inbound[c][1].message.properties.type = Str("work-progress")
    /\ inbound[c][1].message.properties.contentType = Str(ApplicationJSON)
    /\ Decodable(inbound[c][1].message)
    /\ inbound[c][2].message # Null
    /\ inbound[c][2].message.properties # Undefined
    /\ inbound[c][2].message.properties.correlationId = Str("request-1")
    /\ inbound[c][2].message.properties.type = Str("result:success")
    /\ Len(events[c]) = 1
    /\ events[c][1].name = "result:success"

(***************************************************************************)
(* C19, as stated: for every Update Envelope that has a correlationId (a   *)
(* non-empty one) and one of the five known types the requester emits      *)
(* exactly one event, named as the type, with the correlationId.           *)
(***************************************************************************)
C19_KnownKindEmitsOneEvent ==
  \A c \in DOMAIN inbound :
    \A k \in 1..Len(inbound[c]) :
      LET message == inbound[c][k].message
      IN  ( /\ ~Unattributed(message)
            /\ Truthy(message.properties.correlationId)
            /\ KnownKind(message) ) =>
            /\ Len(inbound[c][k].emitted) = 1
            /\ inbound[c][k].emitted[1].name = message.properties.type.v
            /\ inbound[c][k].emitted[1].requestId = message.properties.correlationId

(***************************************************************************)
(* C19, amended: for every Update Envelope that has a non-empty            *)
(* correlationId, one of the five known types and a content that can be    *)
(* decoded as its content type says, the requester emits exactly one       *)
(* event: its name is the type, its arguments are the correlationId and    *)
(* the content, parsed when the content type is application/json and as    *)
(* received otherwise.                                                     *)
(***************************************************************************)
C19_DecodableKnownKindEmitsOneEvent ==
  \A c \in DOMAIN inbound :
    \A k \in 1..Len(inbound[c]) :
      LET message == inbound[c][k].message
      IN  ( /\ ~Unattributed(message)
            /\ Truthy(message.properties.correlationId)
            /\ KnownKind(message)
            /\ Decodable(message) ) =>
            /\ ~inbound[c][k].threw
            /\ inbound[c][k].emitted
                 = << [name |-> message.properties.type.v,
                       requestId |-> message.properties.correlationId,
                       payload |-> Decoded(message)] >>

C19_Witness ==
  \E c \in DOMAIN inbound :
    /\ Len(inbound[c]) = 2
    /\ \A k \in 1..2 :
         /\ inbound[c][k].message # Null
         /\ inbound[c][k].message.properties # Undefined
         /\ inbound[c][k].message.properties.correlationId = Str("request-1")
    /\ inbound[c][1].message.properties.type = Str("log:warning")
    /\ inbound[c][1].message.properties.contentType = Str(TextPlain)
    /\ inbound[c][2].message.properties.type = Str("result:error")
    /\ inbound[c][2].message.properties.contentType = Str(ApplicationJSON)
    /\ Len(events[c]) = 2
    /\ events[c][1] = [name |-> "log:warning", requestId |-> Str("request-1"),
                       payload |-> Buf("text contents")]
    /\ events[c][2].name = "result:error"
    /\ events[c][2].payload.t = "object"

(***************************************************************************)
(* C20: publishUpdate chooses the content type from the shape of the data. *)
(* Whatever value a work function fulfils with, the update published for   *)
(* it carries a string as its bytes with contentType text/plain, an object *)
(* or an array as its JSON text with contentType application/json, and any *)
(* other value as its textual representation with contentType text/plain.  *)
(***************************************************************************)
TextualRepresentation(x) ==
  CASE x.t = "undefined" -> "undefined"
    [] x.t = "null" -> "null"
    [] OTHER -> x.v

C20_ContentTypeFollowsData ==
  \A i \in 1..Len(delivery) :
    LET d == delivery[i]
        data == d.outcome.value
    IN  (HasReplyTo(d) /\ Fulfilled(d) /\ Acks(d) # {}) =>
          \E k \in PublishesOf(d, {"result:success"}) :
            CASE data.t = "string" ->
                   /\ d.calls[k].options.contentType = Str(TextPlain)
                   /\ d.calls[k].content = Buf(data.v)
              [] data.t \in {"object", "array"} ->
                   /\ d.calls[k].options.contentType = Str(ApplicationJSON)
                   /\ d.calls[k].content = Buf(JSONStringify(data))
              [] OTHER ->
                   /\ d.calls[k].options.contentType = Str(TextPlain)
                   /\ d.calls[k].content = Buf(TextualRepresentation(data))

(***************************************************************************)
(* C21: publishUpdate called with a source message that is absent, has no  *)
(* properties or has no properties.replyTo throws InvalidOption and makes  *)
(* no call of channel.publish.                                             *)
(***************************************************************************)
C21_InvalidSourceMessageRefused ==
  \A k \in 1..Len(direct) :
    LET sourceMessage == direct[k].sourceMessage
    IN  ( /\ direct[k].op = "publishUpdate"
          /\ \/ sourceMessage \in { Undefined, Null }
             \/ sourceMessage.properties = Undefined
             \/ sourceMessage.properties.replyTo = Undefined ) =>
          /\ direct[k].threw
          /\ direct[k].err.t = "error"
          /\ direct[k].err.name = "InvalidOption"
          /\ direct[k].calls = <<>>

C21_Witness ==
  \E j, k \in 1..Len(direct) :
    /\ direct[j].op = "publishUpdate" /\ direct[k].op = "publishUpdate"
    /\ direct[j].sourceMessage = Message(Undefined, Undefined)
    /\ direct[j].threw
    /\ direct[k].sourceMessage \notin { Undefined, Null }
    /\ direct[k].sourceMessage.properties # Undefined
    /\ direct[k].sourceMessage.properties.replyTo = Undefined
    /\ direct[k].threw
    /\ \A q \in DOMAIN queue : queue[q] = <<>>

(***************************************************************************)
(* What the record of the calls made on a worker says.                     *)
(***************************************************************************)
\* the calls of publishUpdate that published, in the order they were made
Published ==
  SelectSeq(direct, LAMBDA r : r.op \in {"publishUpdate", "respondError", "handleMessage"}
                                /\ r.calls # <<>>)

(***************************************************************************)
(* C22: what publishUpdate encodes, handleUpdateMessage decodes to the     *)
(* same value.  The j-th update a requester handles is the j-th one        *)
(* published to its reply queue: when the data was an object or an array   *)
(* the payload of the event equals the data, and when the data was a       *)
(* string the update has contentType text/plain and the payload of the     *)
(* event is that string.                                                   *)
(***************************************************************************)
C22_EncodeDecodeRoundTrip ==
  \A c \in DOMAIN inbound :
    \A j \in 1..Len(inbound[c]) :
      (j <= Len(Published) /\ Published[j].op = "publishUpdate") =>
        LET data == Published[j].data
            received == inbound[c][j]
        IN  /\ data.t \in {"object", "array"} =>
                 /\ Len(received.emitted) = 1
                 /\ received.emitted[1].payload = data
            /\ data.t = "string" =>
                 /\ received.message.properties.contentType = Str(TextPlain)
                 /\ Len(received.emitted) = 1
                 /\ received.emitted[1].payload = data

(***************************************************************************)
(* C23: new HWorkerClient without options or without a name, and new       *)
(* HWorkerServer without options, without a name or without a work         *)
(* function, throw InvalidOption: there is no instance, and the broker     *)
(* holds what it held before.  With a name (and a work function) an        *)
(* instance is made.                                                       *)
(***************************************************************************)
C23_ConstructionRequiresOptions ==
  \A k \in 1..Len(direct) :
    LET r == direct[k]
        unnamed == \/ r.options = Undefined
                   \/ Member(r.options, "name") = Undefined
        required == IF r.op = "new HWorkerServer"
                    THEN unnamed \/ r.workerFn = Undefined
                    ELSE unnamed
    IN  r.op \in {"new HWorkerClient", "new HWorkerServer"} =>
          /\ required =>
                /\ r.threw
                /\ r.err.t = "error" /\ r.err.name = "InvalidOption"
                /\ r.instance = Undefined
          /\ \A q \in DOMAIN queue :
                Len(queue[q]) <= Len(Published)
                                  - Len(inbound[CHOOSE c \in DOMAIN inbound : TRUE])
          /\ ( /\ Member(r.options, "name") = Str(TaskName)
               /\ r.op = "new HWorkerServer" => r.workerFn = Function ) =>
                /\ ~r.threw
                /\ r.instance.name = TaskName

C23_Witness ==
  \E j, k \in 1..Len(direct) :
    /\ direct[j].op = "new HWorkerClient"
    /\ direct[j].options = Obj(<< <<"appId", Str("c1")>> >>)
    /\ direct[j].threw
    /\ direct[k].op = "new HWorkerServer"
    /\ direct[k].options = Obj(<< <<"name", Str(TaskName)>> >>)
    /\ direct[k].workerFn = Undefined
    /\ direct[k].threw

(***************************************************************************)
(* What the state of the instances says.                                   *)
(***************************************************************************)
Instances == DOMAIN client \cup DOMAIN worker
PcOf(i) == IF i \in DOMAIN client THEN client[i].pc ELSE worker[i].pc
ChannelOf(i) == IF i \in DOMAIN client THEN client[i].channel ELSE worker[i].channel

\* the calls of connect that were given no connection
Unconnected ==
  { k \in 1..Len(direct) :
      direct[k].op = "connect" /\ direct[k].connectionOrURI \in NoConnections }

(***************************************************************************)
(* C24, as stated: connect called with no connection or URI fails with     *)
(* NotConnected.                                                           *)
(***************************************************************************)
C24_ConnectWithoutConnectionIsNotConnected ==
  \A k \in Unconnected :
    /\ direct[k].threw
    /\ direct[k].err.name = "NotConnected"

(***************************************************************************)
(* C24, amended: connect called with no connection or URI is rejected with *)
(* InvalidOption for the option connectionOrURI; as long as no instance    *)
(* was given a connection nothing is declared on the broker and no         *)
(* instance has a channel.  An empty task name is refused with             *)
(* InvalidOption by the constructors, before any connect; the test of the  *)
(* names in setupMQTopology throws a plain Error.                          *)
(***************************************************************************)
C24_ConnectWithoutConnectionIsInvalidOption ==
  /\ \A k \in Unconnected :
       /\ direct[k].threw
       /\ direct[k].err.name = "InvalidOption"
       /\ direct[k].err.option = Str("connectionOrURI")
  /\ (\A i \in Instances : PcOf(i) = "constructed") =>
       broker = [declared |-> {}, exchanges |-> {}, bindings |-> {}]
  /\ \A i \in Instances : PcOf(i) = "constructed" => ~ChannelOf(i)
  /\ \A options \in ConstructorOptions :
       Member(options, "name") = Str("") =>
         /\ HWorkerClient(options).threw
         /\ HWorkerClient(options).err.name = "InvalidOption"
         /\ HWorkerServer(options, Function).threw
         /\ HWorkerServer(options, Function).err.name = "InvalidOption"
  /\ SetupMQTopology(Str("-exchange"), Str(""), Str("-updates")).threw
  /\ SetupMQTopology(Str("-exchange"), Str(""), Str("-updates")).err.name = "Error"

C24_Witness ==
  /\ \E j, k \in Unconnected :
       /\ direct[j].instance \in DOMAIN client
       /\ direct[k].instance \in DOMAIN worker
       /\ direct[j].connectionOrURI = Undefined
       /\ direct[j].threw /\ direct[k].threw
  /\ \A i \in Instances : PcOf(i) = "constructed" /\ ~ChannelOf(i)
  /\ broker.declared = {} /\ broker.exchanges = {}

(***************************************************************************)
(* C25: whatever the number and the order of the connect calls of the      *)
(* requesters and workers of one task name, the broker holds nothing but   *)
(* the work queue, the direct exchange, the binding of that queue with its *)
(* own name as routing key and the reply queues of the requesters; once an *)
(* instance has asserted, the work queue, the exchange and the binding are *)
(* there, and the reply queue of a requester is there exactly when that    *)
(* requester has asserted.                                                 *)
(***************************************************************************)
Asserted(i) == PcOf(i) \in {"asserting", "consuming", "connected", "refused"} \/ ChannelOf(i)

C25_TopologyIsIdempotent ==
  /\ broker.declared \subseteq { TaskName } \cup { UpdatesQueueName(c) : c \in DOMAIN client }
  /\ broker.exchanges \subseteq { TaskName \o "-exchange" }
  /\ broker.bindings \subseteq { << TaskName, TaskName \o "-exchange", TaskName >> }
  /\ (\E i \in Instances : Asserted(i)) =>
       /\ TaskName \in broker.declared
       /\ broker.exchanges = { TaskName \o "-exchange" }
       /\ broker.bindings = { << TaskName, TaskName \o "-exchange", TaskName >> }
  /\ \A c \in DOMAIN client : UpdatesQueueName(c) \in broker.declared <=> Asserted(c)
  /\ Cardinality(broker.declared)
       = Cardinality({ c \in DOMAIN client : Asserted(c) })
         + (IF \E i \in Instances : Asserted(i) THEN 1 ELSE 0)

C25_Witness ==
  /\ \A i \in Instances : Asserted(i) /\ PcOf(i) \in {"consuming", "connected", "refused"}
  /\ \E c \in DOMAIN client : ConnectedAgain(c) /\ PcOf(c) = "refused"
  /\ \E w \in DOMAIN worker : ConnectedAgain(w) /\ PcOf(w) = "consuming"
  /\ Cardinality(broker.declared) = 3
  /\ Cardinality(broker.bindings) = 1

(***************************************************************************)
(* C26: the requester keeps no state about its requests.  A step in which  *)
(* schedule or handleUpdateMessage is called leaves the fields of every    *)
(* requester as they were, and an update that has a correlationId, a known *)
(* type and a decodable content adds one event whether or not its          *)
(* correlationId was returned by a schedule call of this requester.        *)
(***************************************************************************)
C26_RequesterIsStateless ==
  [][ /\ (submits' # submits \/ inbound' # inbound) => client' = client
      /\ \A c \in DOMAIN inbound :
           Len(inbound'[c]) = Len(inbound[c]) + 1 =>
             LET message == inbound'[c][Len(inbound'[c])].message
             IN  ( /\ ~Unattributed(message)
                   /\ Truthy(message.properties.correlationId)
                   /\ KnownKind(message)
                   /\ Decodable(message) ) =>
                   /\ Len(events'[c]) = Len(events[c]) + 1
                   /\ events'[c][Len(events'[c])].requestId
                        = message.properties.correlationId ]_vars

C26_Witness ==
  \E c \in DOMAIN inbound :
    /\ submits = <<>>
    /\ Len(inbound[c]) = 2
    /\ Len(events[c]) = 2
    /\ events[c][1].requestId = Str("request-1")
    /\ client[c] = [pc |-> "connected", channel |-> TRUE]

(***************************************************************************)
(* C27: the description respondError publishes in the result:error update  *)
(* is what the fault's toJSON returns when the fault has one, and the pair *)
(* of the fault's name and message otherwise.  For InvalidOption,          *)
(* MalformedMessage, UnsupportedContentType and NotConnected it holds the  *)
(* name and the message of the error, for InvalidOption its option and     *)
(* kind as well.  A member that is undefined is not written on the wire.   *)
(***************************************************************************)
Leaves == { "InvalidOption", "MalformedMessage", "UnsupportedContentType", "NotConnected" }

Described(fault) ==
  CASE fault.t = "error" /\ fault.name = "InvalidOption" ->
         Obj(<< <<"name", Str(fault.name)>>, <<"option", fault.option>>,
                <<"kind", fault.kind>>, <<"message", fault.message>> >>)
    [] fault.t = "error" /\ fault.name # "InvalidOption" ->
         Obj(<< <<"name", Str(fault.name)>>, <<"message", fault.message>> >>)
    [] OTHER -> Obj(<< <<"name", Undefined>>, <<"message", Undefined>> >>)

C27_DescriptionOfFault ==
  \A k \in 1..Len(direct) :
    LET r == direct[k]
    IN  (r.op = "respondError" /\ ~r.threw) =>
          /\ Len(r.calls) = 2
          /\ r.calls[1].op = "publish"
          /\ r.calls[1].options.type = Str("result:error")
          /\ r.calls[1].options.contentType = Str(ApplicationJSON)
          /\ DescriptionOf(r.calls[1]) = JSONNormal(Described(r.fault))
          /\ (r.fault.t = "error" /\ r.fault.name \in Leaves) =>
                /\ Member(DescriptionOf(r.calls[1]), "name") = Str(r.fault.name)
                /\ Member(DescriptionOf(r.calls[1]), "message") = r.fault.message
                /\ r.fault.name = "InvalidOption" =>
                      /\ Member(DescriptionOf(r.calls[1]), "option") = r.fault.option
                      /\ Member(DescriptionOf(r.calls[1]), "kind") = r.fault.kind

C27_Witness ==
  \E j, k \in 1..Len(direct) :
    /\ direct[j].op = "respondError" /\ direct[k].op = "respondError"
    /\ ~direct[j].threw /\ ~direct[k].threw
    /\ direct[j].fault = InvalidOption(Str("input"), Str("required"), Str("input is required"))
    /\ Member(DescriptionOf(direct[j].calls[1]), "kind") = Str("required")
    /\ direct[k].fault = NotConnected(Str("not connected"))
    /\ Member(DescriptionOf(direct[k].calls[1]), "name") = Str("NotConnected")

(***************************************************************************)
(* C28: a handleMessage that is handed no delivery (null, undefined)       *)
(* changes nothing: it makes no ack, no nack and no publish, does not      *)
(* invoke the work function, and leaves the queues, the deliveries and the *)
(* fields of the worker as they were.                                      *)
(***************************************************************************)
C28_EmptyDeliveryIsIgnored ==
  [][ ( /\ Len(direct') = Len(direct) + 1
        /\ direct'[Len(direct')].op = "handleMessage"
        /\ ~Truthy(direct'[Len(direct')].message) ) =>
          /\ direct'[Len(direct')].calls = <<>>
          /\ ~direct'[Len(direct')].invoked
          /\ ~direct'[Len(direct')].threw
          /\ UNCHANGED << client, worker, broker, queue, delivery, submits,
                          events, foreign, inbound >> ]_vars

C28_Witness ==
  \E j, k \in 1..Len(direct) :
    /\ direct[j].op = "handleMessage" /\ direct[j].message = Null
    /\ direct[j].calls = <<>>
    /\ direct[k].op = "handleMessage" /\ Truthy(direct[k].message)
    /\ direct[k].calls # <<>>

(***************************************************************************)
(* C29: every update a worker publishes is routed by the broker to exactly *)
(* the queue named in the replyTo of the delivery it answers; no reply is  *)
(* unroutable and none lands in another queue.                             *)
(***************************************************************************)
\* the queues the broker routes the publish call to
RoutedTo(call) ==
  Route(broker.declared, broker.exchanges, broker.bindings, call.exchange, call.routingKey)

\* the publish calls made for delivery i
RepliesOf(i) ==
  { k \in 1..Len(delivery[i].calls) : delivery[i].calls[k].op = "publish" }

C29_ReplyReachesReplyQueue ==
  \A i \in 1..Len(delivery) : \A k \in RepliesOf(i) :
    RoutedTo(delivery[i].calls[k]) = { delivery[i].message.properties.replyTo.v }

(***************************************************************************)
(* C29, amended: an update published for a delivery whose replyTo names a  *)
(* declared queue is routed to exactly that queue, which is the case of    *)
(* every delivery a connected requester submitted (its reply queue); an    *)
(* update for a delivery whose replyTo names a queue nobody declared is    *)
(* routed to no queue.                                                     *)
(***************************************************************************)
C29_ReplyReachesDeclaredReplyQueue ==
  /\ \A i \in 1..Len(delivery) : \A k \in RepliesOf(i) :
       LET replyTo == delivery[i].message.properties.replyTo
       IN  RoutedTo(delivery[i].calls[k])
             = IF replyTo.v \in broker.declared THEN { replyTo.v } ELSE {}
  /\ \A j \in 1..Len(submits) : \A i \in DeliveriesOf(submits[j]) : \A k \in RepliesOf(i) :
       RoutedTo(delivery[i].calls[k]) = { UpdatesQueueName(submits[j].client) }

C29_Witness ==
  \E j \in 1..Len(submits) : \E i \in DeliveriesOf(submits[j]) :
    /\ submits[j].client = "c2"
    /\ RepliesOf(i) # {}
    /\ Len(inbound["c2"]) > 0
    /\ inbound["c1"] = <<>> /\ queue[UpdatesQueueName("c1")] = <<>>
    /\ \E f \in 1..Len(delivery) :
         /\ delivery[f].message.properties.replyTo = Str(ForeignReplyQueue)
         /\ RepliesOf(f) # {}

(***************************************************************************)
(* C30: a work function that returns v and one that returns a promise      *)
(* fulfilled with v cause the same sequence of channel calls for the       *)
(* delivery, and so do one that throws e and one that returns a promise    *)
(* rejected with e: two finished deliveries of the same payload, with the  *)
(* same log calls and the same value or fault, have made the same          *)
(* publishes, acks and nacks in the same order.                            *)
(***************************************************************************)
\* the channel calls of a delivery without what names the request: the
\* routing key and the correlationId of a publish, the message of an ack or nack
SequenceOfBrokerActions(d) ==
  [k \in 1..Len(d.calls) |->
     IF d.calls[k].op = "publish"
     THEN [op |-> "publish", exchange |-> d.calls[k].exchange,
           content |-> d.calls[k].content,
           type |-> d.calls[k].options.type,
           contentType |-> d.calls[k].options.contentType]
     ELSE IF d.calls[k].op = "ack"
     THEN [op |-> "ack", allUpTo |-> d.calls[k].allUpTo]
     ELSE [op |-> "nack", allUpTo |-> d.calls[k].allUpTo, requeue |-> d.calls[k].requeue]]

SameWork(d, e) ==
  /\ Finished(d) /\ Finished(e)
  /\ d.invoked /\ e.invoked
  /\ d.payload = e.payload
  /\ d.logs = e.logs
  /\ d.outcome.value = e.outcome.value
  /\ \/ Fulfilled(d) /\ Fulfilled(e)
     \/ Faulted(d) /\ Faulted(e)

C30_SyncAndAsyncAgree ==
  \A i, j \in 1..Len(delivery) :
    SameWork(delivery[i], delivery[j]) =>
      /\ SequenceOfBrokerActions(delivery[i]) = SequenceOfBrokerActions(delivery[j])
      /\ delivery[i].pc = delivery[j].pc

C30_Witness ==
  \E i, j \in 1..Len(delivery) :
    /\ SameWork(delivery[i], delivery[j])
    /\ delivery[i].outcome = [kind |-> "throw", value |-> Error(Str("error!!!"))]
    /\ delivery[j].outcome = [kind |-> "reject", value |-> Error(Str("error!!!"))]
    /\ Len(delivery[i].logs) = 1
    /\ Len(delivery[i].calls) = 3
    /\ delivery[i].calls[3] = NackCall(delivery[i].message, FALSE, FALSE)

(***************************************************************************)
(* C31: for every value the work function fulfils with, undefined and null *)
(* included, the worker publishes one result:success update carrying that  *)
(* value and acks the delivery once; it publishes no result:error and      *)
(* makes no nack for a work function that fulfilled.                       *)
(***************************************************************************)
C31_FulfilledIsAckedWithSuccess ==
  \A i \in 1..Len(delivery) :
    LET d == delivery[i]
        successes == PublishesOf(d, {"result:success"})
    IN  (Fulfilled(d) /\ Finished(d) /\ HasReplyTo(d)) =>
          /\ Cardinality(successes) = 1
          /\ \A k \in successes :
               d.calls[k].content
                 = Buf(IF InstanceOfObject(d.outcome.value)
                       THEN JSONStringify(d.outcome.value)
                       ELSE ToStringOf(d.outcome.value))
          /\ Cardinality(Acks(d)) = 1
          /\ PublishesOf(d, {"result:error"}) = {}
          /\ Nacks(d) = {}

(***************************************************************************)
(* C32: the payload handed to the work function is deep-equal to the       *)
(* payload given to schedule, for every JSON value, the falsy ones (0,     *)
(* false, the empty string, null) included; a schedule without a payload   *)
(* hands the work function the empty object.                               *)
(***************************************************************************)
C32_PayloadReachesWorkFunction ==
  \A n \in 1..Len(submits) : \A i \in DeliveriesOf(submits[n]) :
    delivery[i].invoked =>
      delivery[i].payload
        = IF submits[n].data = Undefined THEN Obj(<<>>) ELSE JSONNormal(submits[n].data)

(***************************************************************************)
(* C33: each call of a logger method issues exactly one channel.publish    *)
(* within the call: log and info publish log:info, warn publishes          *)
(* log:warning, error publishes log:error, the published data is the list  *)
(* of the arguments of the call in order, and the call returns; a logger   *)
(* call makes no ack and no nack.                                          *)
(***************************************************************************)
C33_LoggerCallPublishesOnce ==
  \A i \in 1..Len(delivery) :
    LET d == delivery[i]
    IN  d.invoked =>
          /\ Len(d.calls) >= Len(d.logs)
          /\ d.pc = "executing" => Len(d.calls) = Len(d.logs)
          /\ \A k \in 1..Len(d.logs) :
               /\ ~d.logs[k].threw
               /\ k <= Len(d.calls)
               /\ d.calls[k].op = "publish"
               /\ d.calls[k].options.type = Str(LogKindOf(d.logs[k].method))
               /\ d.calls[k].content = Buf(JSONStringify(Arr(d.logs[k].arguments)))

(***************************************************************************)
(* C34: for one delivery the log publishes are issued in the order in      *)
(* which the work function called the logger: the log publishes of the     *)
(* delivery, in the order of their issue, are the logger calls that        *)
(* returned, in the order of the calls.                                    *)
(***************************************************************************)
LogPublishes(d) ==
  SelectSeq(d.calls, LAMBDA c : c.op = "publish" /\ c.options.type \in { Str(n) : n \in LogNames })

ReturnedLogs(d) == SelectSeq(d.logs, LAMBDA l : ~l.threw)

C34_LogPublishesInCallOrder ==
  \A i \in 1..Len(delivery) :
    LET pubs == LogPublishes(delivery[i])
        logs == ReturnedLogs(delivery[i])
    IN  /\ Len(pubs) = Len(logs)
        /\ \A k \in 1..Len(logs) :
             /\ pubs[k].options.type = Str(LogKindOf(logs[k].method))
             /\ pubs[k].content = Buf(JSONStringify(Arr(logs[k].arguments)))

C34_Witness ==
  \E i \in 1..Len(delivery) :
    /\ Len(delivery[i].logs) = 2
    /\ delivery[i].logs[1].method = "error"
    /\ delivery[i].logs[2].method = "info"
    /\ Len(delivery[i].calls) >= 2
    /\ delivery[i].calls[1].options.type = Str("log:error")
    /\ delivery[i].calls[2].options.type = Str("log:info")

(***************************************************************************)
(* C35: on the requester an update that has a correlationId, content type  *)
(* application/json and a body that is not valid JSON fails with           *)
(* MalformedMessage and emits no event; an update of any other content     *)
(* type is not parsed: nothing is thrown and, when its type is known, the  *)
(* event carries the content as received.                                  *)
(***************************************************************************)
C35_MalformedUpdateFailsWithMalformedMessage ==
  \A c \in DOMAIN inbound : \A k \in 1..Len(inbound[c]) :
    LET r == inbound[c][k]
        message == r.message
    IN  (~Unattributed(message) /\ Truthy(message.properties.correlationId)) =>
          /\ ( /\ message.properties.contentType = Str(ApplicationJSON)
               /\ message.content.t = "buffer"
               /\ ~Decodable(message) ) =>
                /\ r.threw
                /\ r.err.t = "error" /\ r.err.name = "MalformedMessage"
                /\ r.emitted = <<>>
          /\ message.properties.contentType # Str(ApplicationJSON) =>
                /\ ~r.threw
                /\ \A e \in 1..Len(r.emitted) : r.emitted[e].payload = message.content

(***************************************************************************)
(* C36: with several deliveries in flight on one worker every update is    *)
(* attributed to the right delivery: each publish made for a delivery, log *)
(* or terminal, carries the messageId of that delivery as correlationId    *)
(* and its replyTo as routing key, and each ack or nack made for a         *)
(* delivery names that delivery and no other.                              *)
(***************************************************************************)
C36_UpdatesBelongToOwnDelivery ==
  \A i \in 1..Len(delivery) : \A k \in 1..Len(delivery[i].calls) :
    LET d == delivery[i]
        c == d.calls[k]
    IN  /\ c.op = "publish" =>
             /\ c.options.correlationId = d.message.properties.messageId
             /\ c.routingKey = d.message.properties.replyTo
        /\ c.op \in {"ack", "nack"} => c.message = d.message

C36_Witness ==
  \E i, j \in 1..Len(delivery) :
    /\ i < j
    /\ delivery[i].worker = delivery[j].worker
    /\ delivery[i].message # delivery[j].message
    /\ delivery[i].pc = "executing" /\ Len(delivery[i].logs) = 1
    /\ delivery[j].pc = "done" /\ Len(delivery[j].logs) = 1
    /\ Len(delivery[j].calls) = 3
    /\ delivery[j].calls[2].op = "ack"

(***************************************************************************)
(* C37: settling one delivery never settles another.  Every ack and nack   *)
(* of the worker has allUpTo = false, so the broker takes a delivery of a  *)
(* channel as settled exactly when the handling of that delivery has acked *)
(* or nacked it; the other deliveries in flight on the channel stay        *)
(* pending.                                                                *)
(***************************************************************************)
\* the broker's view: an ack or nack on the channel of delivery i names its
\* message, or names a later delivery of the channel with allUpTo set
SettledOnChannel(i) ==
  \E j \in 1..Len(delivery) : \E k \in 1..Len(delivery[j].calls) :
    LET c == delivery[j].calls[k]
    IN  /\ delivery[j].worker = delivery[i].worker
        /\ c.op \in {"ack", "nack"}
        /\ \/ c.message = delivery[i].message
           \/ /\ c.allUpTo
              /\ \E t \in i..Len(delivery) :
                   /\ delivery[t].worker = delivery[i].worker
                   /\ delivery[t].message = c.message

C37_SettlingIsPerDelivery ==
  \A i \in 1..Len(delivery) :
    /\ \A k \in Acks(delivery[i]) \cup Nacks(delivery[i]) : ~delivery[i].calls[k].allUpTo
    /\ SettledOnChannel(i) <=> Settled(delivery[i])

C37_Witness ==
  \E i, j \in 1..Len(delivery) :
    /\ i < j
    /\ delivery[i].worker = delivery[j].worker
    /\ delivery[i].message # delivery[j].message
    /\ delivery[i].pc = "executing" /\ ~SettledOnChannel(i)
    /\ delivery[j].pc = "done" /\ Nacks(delivery[j]) # {} /\ SettledOnChannel(j)

(***************************************************************************)
(* C38: once the terminal result of a delivery has been published and the  *)
(* delivery acked or nacked, no further update is published for the        *)
(* delivery: no publish among its channel calls comes after both a         *)
(* terminal publish and an ack or nack, even when the work function calls  *)
(* the logger it kept after its result was delivered.                      *)
(***************************************************************************)
C38_TerminalIsLastUpdate ==
  \A i \in 1..Len(delivery) : \A k \in 1..Len(delivery[i].calls) :
    delivery[i].calls[k].op = "publish" =>
      ~ /\ \E t \in Terminals(delivery[i]) : t < k
        /\ \E a \in Acks(delivery[i]) \cup Nacks(delivery[i]) : a < k

(***************************************************************************)
(* C39: a worker consumes from the work queue only after its prefetch      *)
(* limit has been applied to the channel, the work queue, the exchange and *)
(* the binding have been declared and the channel has been stored on the   *)
(* instance; handleMessage never runs while the channel is unset, and the  *)
(* number of unsettled deliveries of the worker never exceeds its limit.   *)
(***************************************************************************)
C39_ConsumesAfterSetup ==
  /\ \A w \in DOMAIN worker :
       worker[w].pc = "consuming" =>
         /\ worker[w].channel
         /\ worker[w].limit = worker[w].prefetch
         /\ WorkerQueueName \in broker.declared
         /\ WorkerExchangeName \in broker.exchanges
         /\ <<WorkerQueueName, WorkerExchangeName, WorkerQueueName>> \in broker.bindings
  /\ \A i \in 1..Len(delivery) :
       LET w == delivery[i].worker
       IN  /\ worker[w].pc = "consuming"
           /\ worker[w].channel
           /\ worker[w].limit # 0 => Unacked(w) <= worker[w].limit

C39_Witness ==
  /\ Len(delivery) = 1
  /\ delivery[1].pc = "executing"
  /\ worker[delivery[1].worker].pc = "consuming"
  /\ worker[delivery[1].worker].channel
  /\ worker[delivery[1].worker].limit = 2
  /\ Unacked(delivery[1].worker) = 1

====
